---- MODULE Spec2Model ----
(***************************************************************************)
(* State-machine model of the robot control panel: the browser's alert     *)
(* engine (frontend/js/alert.js), the client poller (DataService in        *)
(* frontend/js/video.js), the backend data source adapter                  *)
(* (backend/data/dataSource.js), the control endpoint and the mock task    *)
(* store (backend/controllers/robotController.js).                         *)
(***************************************************************************)
EXTENDS Integers, Sequences, FiniteSets, TLC

VARIABLES
    now,            \* Date.now() of the browser, in milliseconds
    alertContainer, \* TRUE once the #alertContainer element exists
    activeAlerts,   \* AlertService.activeAlerts: rule id -> alert (a Map)
    alertHistory,   \* AlertService.alertHistory, newest first
    notified,       \* notification elements created so far, per rule id
    lastEval,       \* per rule id: the branch the latest call took for it
    evalLog,        \* what a test observing the battery evaluations records
    isConnected,    \* State.isConnected
    stateRobot,     \* State.robot
    stateSensors,   \* State.sensors
    stateStatistics,\* State.statistics
    stateTasks,     \* State.tasks
    timers,         \* State.timers: key -> interval timer id
    liveTimers,     \* the browser's interval timers that are set and not cleared
    nextTimerId,    \* the id the next setInterval returns
    pending,        \* fetches in flight, per polled category
    issued,         \* fetches issued so far
    logList,        \* the connectivity entries of the #logList element, newest first
    statusLog,      \* what a test observing the status fetches records
    chartHistory,   \* ChartService.history
    chartFeed,      \* every sample ChartService.update was called with, oldest first
    cfgType,        \* CONFIG.type of the data source
    cache,          \* the data source's cache
    dsConnected,    \* the data source's isConnected
    connection,     \* the data source's connection: "null", or the state of the object
    orphans,        \* connection objects closed by close() whose close event is still due
    wsTimers,       \* pending setTimeout(initWebSocket, 5000) timers
    sent,           \* messages handed to the transport so far
    lastWrite,      \* the latest cache write: its payload and the cache before it
    lastRead,       \* the latest read call: upstream outcome, cache before, result
    lastControl,    \* the latest control request: body, response, dispatcher result
    tornDown,       \* close() has run on an established connection, init() not since
    closeReturned,  \* close() has returned, init() has not been called since
    lastEvent,      \* the latest event of an established stream connection, or of its opening
    drops,          \* inbound payloads received so far that were no structured telemetry
    tasks,          \* the mock data layer's task list
    retiredIds,     \* ids of tasks that have been deleted
    mockState,      \* the mock data layer's state object (sensor and statistics fields)
    lastStats,      \* the latest statistics call of the mock data layer and its result
    dataLayer,      \* the data module the controller requires: "dataSource" or "mockData"
    apiLog,         \* the latest two HTTP exchanges of the REST interface, oldest first
    requests,       \* per request function: the phase of its call and its abort timer
    statusPoll,     \* the status fetches issued one by one: those in flight, the one whose
                    \* response arrived last, the newest one whose response was applied
    video           \* VideoService: config.type, state.isPlaying, state.refreshTimer,
                    \* state.retryCount, the interval timers alive in the page and the
                    \* setTimeout(start) calls still pending; observed besides: whether
                    \* stop() was the last call made to the service, and the restarts
                    \* handleError has scheduled since retryCount was last reset and
                    \* since the picture last loaded

alertVars == <<now, alertContainer, activeAlerts, alertHistory, notified, lastEval, evalLog>>
pollVars == <<isConnected, stateRobot, stateSensors, stateStatistics, stateTasks,
              timers, liveTimers, nextTimerId, pending, issued, logList, statusLog>>

dsVars == <<cfgType, cache, dsConnected, connection, orphans, wsTimers, sent,
            lastWrite, lastRead, lastControl, tornDown, closeReturned, lastEvent, drops>>

chartVars == <<chartHistory, chartFeed>>

taskVars == <<tasks, retiredIds>>

mockVars == <<mockState, lastStats, dataLayer, apiLog>>

reqVars == <<requests>>

flightVars == <<statusPoll>>

videoVars == <<video>>

vars == <<alertVars, pollVars, chartVars, dsVars, taskVars, mockVars, reqVars, flightVars,
          videoVars>>

\* What the actions of one part leave alone
nonAlert == <<pollVars, chartVars, dsVars, taskVars, mockVars, reqVars, flightVars, videoVars>>
nonPoller == <<dsVars, taskVars, mockVars, reqVars, flightVars, videoVars>>
nonDs == <<alertVars, pollVars, chartVars, taskVars, mockVars, reqVars, flightVars, videoVars>>
nonTasks == <<alertVars, pollVars, chartVars, dsVars, mockVars, reqVars, flightVars, videoVars>>
nonReq == <<alertVars, pollVars, chartVars, dsVars, taskVars, mockVars, flightVars, videoVars>>
nonMock == <<alertVars, pollVars, chartVars, dsVars, taskVars, reqVars, flightVars, videoVars>>

(***************************************************************************)
(* Bounds of the model.                                                    *)
(***************************************************************************)
TimeStep == 15000
MaxNow == 45000
MaxAlerts == 2
MaxTimers == 10
MaxRequests == 8
MaxSent == 2
MaxWsTimers == 1
MaxTasks == 4
MaxTaskId == 5
MaxSamples == 22
MaxOddSamples == 2
MaxDrops == 2
MaxExchanges == 4
MaxCalls == 3
MaxStatusFetches == 3
MaxIntervals == 3
MaxStartTimeouts == 2
MaxErrors == 6
MaxRestarts == 6
MaxShown == 52

(***************************************************************************)
(* AlertService (frontend/js/alert.js)                                     *)
(***************************************************************************)
maxHistory == 50
alertCooldown == 30000
Offline == -1

RuleOrder == <<"lowBattery", "highTemperature", "lowSoilHumidity", "highSoilHumidity", "lowLight">>

rules == [
    lowBattery       |-> [enabled |-> TRUE, threshold |-> 20,   level |-> "critical", field |-> "battery",      condition |-> "below"],
    highTemperature  |-> [enabled |-> TRUE, threshold |-> 40,   level |-> "warning",  field |-> "temperature",  condition |-> "above"],
    lowSoilHumidity  |-> [enabled |-> TRUE, threshold |-> 30,   level |-> "warning",  field |-> "soilHumidity", condition |-> "below"],
    highSoilHumidity |-> [enabled |-> TRUE, threshold |-> 90,   level |-> "info",     field |-> "soilHumidity", condition |-> "above"],
    lowLight         |-> [enabled |-> TRUE, threshold |-> 1000, level |-> "info",     field |-> "light",        condition |-> "below"]]

RuleIds == {RuleOrder[i] : i \in 1..Len(RuleOrder)}
AlertIds == RuleIds \cup {"disconnected"}

\* Map.set and Map.delete on a Map held as a function over its keys
MapSet(m, k, v) == [x \in DOMAIN m \cup {k} |-> IF x = k THEN v ELSE m[x]]
MapDelete(m, k) == [x \in DOMAIN m \ {k} |-> m[x]]

\* check(): the comparison of a present field value with the rule's threshold
Triggered_Hysteresis(rule, value) ==
    \/ rule.condition = "below" /\ value <= rule.threshold - 5
    \/ rule.condition = "above" /\ value >= rule.threshold + 5

Triggered(rule, value) ==
    \/ rule.condition = "below" /\ value < rule.threshold
    \/ rule.condition = "above" /\ value > rule.threshold

\* trigger(): the cooldown test on an existing alert
InCooldown_Never(existingTime, t) == FALSE

InCooldown(existingTime, t) == (t - existingTime) < alertCooldown

\* A history that gives up the new entry when it is full
addToHistory_KeepsOldest(history, alert) ==
    LET h == <<alert>> \o history
    IN  IF Len(h) > maxHistory THEN SubSeq(h, 2, Len(h)) ELSE h

\* addToHistory(): unshift, then pop when over capacity
addToHistory(history, alert) ==
    LET h == <<alert>> \o history
    IN  IF Len(h) > maxHistory THEN SubSeq(h, 1, Len(h) - 1) ELSE h

\* showNotification(): a no-op without the container element
showNotification(n, container, ruleId) ==
    IF container THEN [n EXCEPT ![ruleId] = @ + 1] ELSE n

\* The alert engine's state as one value, threaded through a call
AlertState == [active |-> activeAlerts, history |-> alertHistory,
               notified |-> notified, eval |-> [r \in AlertIds |-> "none"]]

\* A trigger() that gives up when there is nowhere to show the notification
trigger_NeedsContainer(st, ruleId, level, value, t, container) ==
    IF ~container THEN st
    ELSE IF ruleId \in DOMAIN st.active /\ InCooldown(st.active[ruleId].time, t)
    THEN [st EXCEPT !.eval[ruleId] = "suppressed"]
    ELSE LET alert == [id |-> ruleId, level |-> level, time |-> t, value |-> value]
         IN  [active   |-> MapSet(st.active, ruleId, alert),
              history  |-> addToHistory(st.history, alert),
              notified |-> showNotification(st.notified, container, ruleId),
              eval     |-> [st.eval EXCEPT ![ruleId] = "emitted"]]

trigger(st, ruleId, level, value, t, container) ==
    IF ruleId \in DOMAIN st.active /\ InCooldown(st.active[ruleId].time, t)
    THEN [st EXCEPT !.eval[ruleId] = "suppressed"]
    ELSE LET alert == [id |-> ruleId, level |-> level, time |-> t, value |-> value]
         IN  [active   |-> MapSet(st.active, ruleId, alert),
              history  |-> addToHistory(st.history, alert),
              notified |-> showNotification(st.notified, container, ruleId),
              eval     |-> [st.eval EXCEPT ![ruleId] = "emitted"]]

resolve_AfterCooldown(st, ruleId) ==
    IF ruleId \in DOMAIN st.active /\ ~InCooldown(st.active[ruleId].time, now)
    THEN [st EXCEPT !.active = MapDelete(st.active, ruleId), !.eval[ruleId] = "cleared"]
    ELSE [st EXCEPT !.eval[ruleId] = "idle"]

resolve(st, ruleId) ==
    IF ruleId \in DOMAIN st.active
    THEN [st EXCEPT !.active = MapDelete(st.active, ruleId), !.eval[ruleId] = "cleared"]
    ELSE [st EXCEPT !.eval[ruleId] = "idle"]

\* An iteration that takes an absent field for a reading that is in range
checkRule_ClearsAbsent(st, ruleId, allData, t, container) ==
    LET rule == rules[ruleId]
    IN  IF ~rule.enabled THEN st
        ELSE IF rule.field \notin DOMAIN allData
        THEN resolve(st, ruleId)
        ELSE IF Triggered(rule, allData[rule.field])
        THEN trigger(st, ruleId, rule.level, allData[rule.field], t, container)
        ELSE resolve(st, ruleId)

\* One iteration of the forEach in check()
checkRule(st, ruleId, allData, t, container) ==
    LET rule == rules[ruleId]
    IN  IF ~rule.enabled THEN st
        ELSE IF rule.field \notin DOMAIN allData
        THEN [st EXCEPT !.eval[ruleId] = "skipped"]
        ELSE IF Triggered(rule, allData[rule.field])
        THEN trigger(st, ruleId, rule.level, allData[rule.field], t, container)
        ELSE resolve(st, ruleId)

RECURSIVE checkFrom(_, _, _, _, _)
checkFrom(i, st, allData, t, container) ==
    IF i > Len(RuleOrder) THEN st
    ELSE checkFrom(i + 1, checkRule(st, RuleOrder[i], allData, t, container),
                   allData, t, container)

\* check(robotData, sensorData) on the merged snapshot
check(st, allData, t, container) == checkFrom(1, st, allData, t, container)

checkConnection_TriggerOnly(st, connected, t, container) ==
    IF ~connected
    THEN trigger(st, "disconnected", "critical", Offline, t, container)
    ELSE st

checkConnection(st, connected, t, container) ==
    IF ~connected
    THEN trigger(st, "disconnected", "critical", Offline, t, container)
    ELSE resolve(st, "disconnected")

SetAlertState(st) ==
    /\ activeAlerts' = st.active
    /\ alertHistory' = st.history
    /\ notified' = st.notified
    /\ lastEval' = st.eval

\* What the observer of battery evaluations appends for one check() call
Observe(st, allData, t) ==
    IF "battery" \in DOMAIN allData
    THEN LET e == [battery |-> allData["battery"],
                   time    |-> t,
                   before  |-> "lowBattery" \in DOMAIN activeAlerts,
                   emitted |-> st.eval["lowBattery"] = "emitted",
                   active  |-> "lowBattery" \in DOMAIN st.active]
             l == Append(evalLog, e)
         IN  IF Len(l) > 3 THEN Tail(l) ELSE l
    ELSE evalLog

(***************************************************************************)
(* Inputs of the alert engine                                              *)
(***************************************************************************)
Fields == {"battery", "temperature", "soilHumidity", "light"}
FieldValues == [battery      |-> {15, 16, 25},
                temperature  |-> {35, 45},
                soilHumidity |-> {20, 95},
                light        |-> {500, 2000}]
AllValues == UNION {FieldValues[f] : f \in Fields}
Snapshots == UNION {{s \in [D -> AllValues] : \A f \in D : s[f] \in FieldValues[f]} :
                    D \in {E \in SUBSET Fields : Cardinality(E) <= 2}}
BatterySnapshots == {s \in Snapshots : DOMAIN s = {"battery"}}

(***************************************************************************)
(* Actions of the alert engine                                             *)
(***************************************************************************)
InitAlert ==
    /\ now = 0
    /\ alertContainer = FALSE
    /\ activeAlerts = <<>>
    /\ alertHistory = <<>>
    /\ notified = [r \in AlertIds |-> 0]
    /\ lastEval = [r \in AlertIds |-> "none"]
    /\ evalLog = <<>>

\* Date.now() advances
Tick ==
    /\ now + TimeStep <= MaxNow
    /\ now' = now + TimeStep
    /\ UNCHANGED <<alertContainer, activeAlerts, alertHistory, notified, lastEval, evalLog>>
    /\ UNCHANGED nonAlert

\* AlertService.init(): createAlertContainer()
AlertInit ==
    /\ alertContainer' = TRUE
    /\ UNCHANGED <<now, activeAlerts, alertHistory, notified, lastEval, evalLog>>
    /\ UNCHANGED nonAlert

\* AlertService.check(robotData, sensorData)
Check(allData) ==
    /\ Len(alertHistory) < MaxAlerts
    /\ SetAlertState(check(AlertState, allData, now, alertContainer))
    /\ UNCHANGED <<now, alertContainer, evalLog>>
    /\ UNCHANGED nonAlert

\* The same call, watched by the observer of battery evaluations
ObservedCheck(allData) ==
    /\ Len(alertHistory) < MaxAlerts
    /\ LET st == check(AlertState, allData, now, alertContainer)
       IN  SetAlertState(st) /\ evalLog' = Observe(st, allData, now)
    /\ UNCHANGED <<now, alertContainer>>
    /\ UNCHANGED nonAlert

\* AlertService.checkConnection(connected)
CheckConnection(connected) ==
    /\ Len(alertHistory) < MaxAlerts
    /\ SetAlertState(checkConnection(AlertState, connected, now, alertContainer))
    /\ UNCHANGED <<now, alertContainer, evalLog>>
    /\ UNCHANGED nonAlert

\* AlertService.clearAll()
ClearAll ==
    /\ activeAlerts' = <<>>
    /\ UNCHANGED <<now, alertContainer, alertHistory, notified, lastEval, evalLog>>
    /\ UNCHANGED nonAlert

NextAlert ==
    \/ Tick
    \/ AlertInit
    \/ \E s \in Snapshots : Check(s)
    \/ \E c \in BOOLEAN : CheckConnection(c)
    \/ ClearAll

\* Snapshots that carry one field at most: every other rule finds its field absent
SparseSnapshots == {s \in Snapshots : Cardinality(DOMAIN s) <= 1}

\* The alert engine fed one reading at a time
NextRules ==
    \/ Tick
    \/ AlertInit
    \/ \E s \in SparseSnapshots : Check(s)
    \/ \E c \in BOOLEAN : CheckConnection(c)
    \/ ClearAll

\* A battery reading below the threshold and one above it
HistorySnapshots == {s \in BatterySnapshots : s["battery"] \in {15, 25}}

\* check() called as often as the readings arrive, after init() as in App.init
RepeatedCheck(allData) ==
    /\ alertContainer
    /\ notified["lowBattery"] < MaxShown
    /\ SetAlertState(check(AlertState, allData, now, alertContainer))
    /\ UNCHANGED <<now, alertContainer, evalLog>>
    /\ UNCHANGED nonAlert

\* A battery that falls and recovers over and over while the clock advances
NextHistory ==
    \/ AlertInit
    \/ Tick
    \/ \E s \in HistorySnapshots : RepeatedCheck(s)

\* A test that evaluates battery readings only and records what it sees
NextBattery ==
    \/ Tick
    \/ AlertInit
    \/ \E s \in BatterySnapshots : ObservedCheck(s)

\* Number of history entries of one rule
HistCount(h, r) == Cardinality({i \in 1..Len(h) : h[i].id = r})

(***************************************************************************)
(* C34: a check() on a snapshot that does not carry a rule's field leaves  *)
(* that rule as it was: its active alert, if any, stays the same alert, no *)
(* history entry is added for it and no notification is shown for it.      *)
(***************************************************************************)
C34_AbsentFieldSkipped ==
    \A s \in Snapshots :
        LET st == check(AlertState, s, now, alertContainer)
        IN  \A r \in RuleIds : rules[r].field \notin DOMAIN s =>
                /\ (r \in DOMAIN st.active) = (r \in DOMAIN activeAlerts)
                /\ r \in DOMAIN activeAlerts => st.active[r] = activeAlerts[r]
                /\ HistCount(st.history, r) = HistCount(alertHistory, r)
                /\ st.notified[r] = notified[r]

\* A rule whose alert is active after a check() that did not carry its field,
\* while the same check() raised the alert of another rule
C34_Witness ==
    \E r, q \in RuleIds :
        /\ r \in DOMAIN activeAlerts
        /\ lastEval[r] = "skipped"
        /\ lastEval[q] = "emitted"

(***************************************************************************)
(* C38: from the same engine state and at the same time, check() and       *)
(* checkConnection() leave the same activeAlerts and the same alertHistory *)
(* whether the notification container exists or not; so two runs of the    *)
(* same calls, one with and one without the container, agree on both after *)
(* every call.                                                             *)
(***************************************************************************)
C38_PresentationIndependent ==
    /\ \A s \in SparseSnapshots :
           LET shown  == check(AlertState, s, now, TRUE)
               silent == check(AlertState, s, now, FALSE)
           IN  shown.active = silent.active /\ shown.history = silent.history
    /\ \A c \in BOOLEAN :
           LET shown  == checkConnection(AlertState, c, now, TRUE)
               silent == checkConnection(AlertState, c, now, FALSE)
           IN  shown.active = silent.active /\ shown.history = silent.history

\* Alerts were raised while no container existed: the engine holds them and
\* nothing was shown
C38_Witness ==
    /\ ~alertContainer
    /\ "disconnected" \in DOMAIN activeAlerts
    /\ "lowBattery" \in DOMAIN activeAlerts
    /\ Len(alertHistory) = 2
    /\ \A r \in AlertIds : notified[r] = 0

(***************************************************************************)
(* C35: alertHistory never holds more than maxHistory entries, its entries *)
(* are ordered newest first, and every trigger puts its alert at the front *)
(* and keeps the entries that were there in their order, all of them below *)
(* the capacity and all but the last (the oldest) at the capacity.         *)
(***************************************************************************)
C35_HistoryBounded ==
    /\ [](Len(alertHistory) <= maxHistory)
    /\ [](\A i \in 1..(Len(alertHistory) - 1) :
             alertHistory[i].time >= alertHistory[i + 1].time)
    /\ [][notified'["lowBattery"] = notified["lowBattery"] + 1 =>
              /\ Len(alertHistory') = (IF Len(alertHistory) < maxHistory
                                       THEN Len(alertHistory) + 1 ELSE maxHistory)
              /\ alertHistory'[1].id = "lowBattery"
              /\ alertHistory'[1].time = now
              /\ SubSeq(alertHistory', 2, Len(alertHistory')) =
                     SubSeq(alertHistory, 1, Len(alertHistory') - 1)]_vars

\* More alerts were triggered than the history holds: it is full and its
\* newest entry is younger than its oldest
C35_Witness ==
    /\ notified["lowBattery"] > maxHistory
    /\ Len(alertHistory) = maxHistory
    /\ alertHistory[1].time > alertHistory[maxHistory].time

(***************************************************************************)
(* C1: while an active alert of a rule is younger than alertCooldown, no   *)
(* step emits a notification for that rule, appends a history entry for it *)
(* or replaces the active alert; so a rule with an active alert is         *)
(* notified again only once that alert is at least one cooldown old.       *)
(***************************************************************************)
C1_CooldownSuppresses ==
    [][\A r \in AlertIds :
        (r \in DOMAIN activeAlerts /\ now' - activeAlerts[r].time < alertCooldown)
        => /\ notified'[r] = notified[r]
           /\ HistCount(alertHistory', r) = HistCount(alertHistory, r)
           /\ (r \in DOMAIN activeAlerts' => activeAlerts'[r] = activeAlerts[r])]_vars

\* a trigger call was suppressed for an alert raised at an earlier instant,
\* with the notification container present
C1_Witness ==
    \E r \in AlertIds :
        /\ lastEval[r] = "suppressed"
        /\ r \in DOMAIN activeAlerts
        /\ activeAlerts[r].time < now
        /\ notified[r] = 1

(***************************************************************************)
(* C2: the battery evaluations 15, 16, 15 within one cooldown window,      *)
(* starting without a lowBattery alert.                                    *)
(***************************************************************************)
LowBatteryScenario ==
    /\ Len(evalLog) = 3
    /\ evalLog[1].battery = 15 /\ evalLog[2].battery = 16 /\ evalLog[3].battery = 15
    /\ ~evalLog[1].before
    /\ evalLog[3].time - evalLog[1].time < alertCooldown

\* C2 as stated: the first evaluation triggers once, the second (16) clears
\* the alert, the third emits nothing and leaves the alert active.
C2_AsStated ==
    LowBatteryScenario =>
        /\ evalLog[1].emitted /\ evalLog[1].active
        /\ ~evalLog[2].active
        /\ ~evalLog[3].emitted /\ evalLog[3].active

\* C2 amended: 16 is still below the threshold 20, so the second evaluation
\* neither clears the alert nor emits; the third emits nothing and the alert
\* is active afterwards.
C2_Amended ==
    LowBatteryScenario =>
        /\ evalLog[1].emitted /\ evalLog[1].active
        /\ ~evalLog[2].emitted /\ evalLog[2].active
        /\ ~evalLog[3].emitted /\ evalLog[3].active

C2_Witness == LowBatteryScenario /\ evalLog[1].time < evalLog[3].time

(***************************************************************************)
(* C3: after an evaluation of a rule whose condition does not hold (its    *)
(* field present), the rule has no entry in activeAlerts, however recently *)
(* the alert was triggered.                                                *)
(***************************************************************************)
C3_ClearIsImmediate ==
    \A r \in RuleIds : lastEval[r] \in {"cleared", "idle"} => r \notin DOMAIN activeAlerts

\* an alert triggered at the present instant was cleared by the latest call
C3_Witness ==
    \E r \in RuleIds :
        /\ lastEval[r] = "cleared"
        /\ \E i \in 1..Len(alertHistory) : alertHistory[i].id = r /\ alertHistory[i].time = now


(***************************************************************************)
(* ChartService.update (the chart module under backend/controllers)        *)
(***************************************************************************)
maxDataPoints == 20

\* value || 0 on a field that may be missing
OrZero(obj, f) == IF f \in DOMAIN obj THEN obj[f] ELSE 0

\* update() with pop() in the place of shift()
ChartUpdate_PopNewest(h, robotData, sensorData, t) ==
    IF Len(h.labels) >= maxDataPoints
    THEN h
    ELSE [labels       |-> Append(h.labels, t),
          battery      |-> Append(h.battery, OrZero(robotData, "battery")),
          soilHumidity |-> Append(h.soilHumidity, OrZero(sensorData, "soilHumidity")),
          temperature  |-> Append(h.temperature, OrZero(sensorData, "soilTemp")),
          light        |-> Append(h.light, OrZero(sensorData, "light") \div 100)]

ChartUpdate(h, robotData, sensorData, t) ==
    LET g == [labels       |-> Append(h.labels, t),
              battery      |-> Append(h.battery, OrZero(robotData, "battery")),
              soilHumidity |-> Append(h.soilHumidity, OrZero(sensorData, "soilHumidity")),
              temperature  |-> Append(h.temperature, OrZero(sensorData, "soilTemp")),
              light        |-> Append(h.light, OrZero(sensorData, "light") \div 100)]
    IN  IF Len(g.labels) > maxDataPoints
        THEN [k \in DOMAIN g |-> Tail(g[k])]
        ELSE g

\* The samples a caller passes: the usual one, and an odd one (a low battery,
\* a dry and hot soil, little light) that tells the entries of a series apart
UsualSample == [robot |-> [battery |-> 50],
                sensors |-> [soilHumidity |-> 65, soilTemp |-> 22, light |-> 8000]]
OddSample == [robot |-> [battery |-> 15],
              sensors |-> [soilHumidity |-> 20, soilTemp |-> 30, light |-> 500]]

OddCount(feed) == Cardinality({i \in 1..Len(feed) : feed[i].robot = OddSample.robot})

\* ChartService.update(robotData, sensorData)
ChartServiceUpdate(sample) ==
    /\ Len(chartFeed) < MaxSamples
    /\ sample = OddSample => OddCount(chartFeed) < MaxOddSamples
    /\ chartHistory' = ChartUpdate(chartHistory, sample.robot, sample.sensors, now)
    /\ chartFeed' = Append(chartFeed, [robot |-> sample.robot, sensors |-> sample.sensors,
                                       time |-> now])
    /\ UNCHANGED <<alertVars, pollVars, dsVars, taskVars, mockVars, reqVars, flightVars, videoVars>>

NextChart == \E sample \in {UsualSample, OddSample} : ChartServiceUpdate(sample)

\* The last n entries of a sequence
LastN(q, n) == IF Len(q) <= n THEN q ELSE SubSeq(q, Len(q) - n + 1, Len(q))

\* What update() appends to each series for one sample
Pushed(k, sample) ==
    CASE k = "labels"       -> sample.time
      [] k = "battery"      -> OrZero(sample.robot, "battery")
      [] k = "soilHumidity" -> OrZero(sample.sensors, "soilHumidity")
      [] k = "temperature"  -> OrZero(sample.sensors, "soilTemp")
      [] k = "light"        -> OrZero(sample.sensors, "light") \div 100

\* C14: each of the five series holds at most maxDataPoints entries, and they
\* are the most recent samples in the order they were appended.
C14_ChartBufferBounded ==
    \A k \in {"labels", "battery", "soilHumidity", "temperature", "light"} :
        /\ Len(chartHistory[k]) <= maxDataPoints
        /\ chartHistory[k] = [i \in 1..Len(LastN(chartFeed, maxDataPoints)) |->
                                 Pushed(k, LastN(chartFeed, maxDataPoints)[i])]

\* one sample more than the capacity was appended; the evicted one was odd
C14_Witness ==
    /\ Len(chartFeed) = maxDataPoints + 1
    /\ chartFeed[1].robot = OddSample.robot
    /\ chartFeed[maxDataPoints + 1].robot = OddSample.robot
    /\ Len(chartHistory.battery) = maxDataPoints

(***************************************************************************)
(* State, LogService and DataService (frontend/js/video.js)                *)
(***************************************************************************)
maxItems == 10

Cats == {"robot", "sensors", "stats", "tasks"}
TimerKeys == <<"time", "robot", "sensors", "stats", "tasks">>

\* LogService.add(): prepend, then drop the oldest beyond maxItems
LogAdd(l, message) ==
    LET m == <<message>> \o l
    IN  IF Len(m) > maxItems THEN SubSeq(m, 1, maxItems) ELSE m

\* Payloads the backend answers with
RobotPayloads == {[battery |-> b, speed |-> 1, temperature |-> 25,
                   coordinates |-> [lat |-> 40, lon |-> 116]] : b \in {15, 50}}
SensorPayloads == {[soilHumidity |-> 65, soilTemp |-> 22, light |-> 8000, airHumidity |-> 55]}
StatisticsPayloads == {[completedArea |-> 12, totalArea |-> 38, progress |-> 32]}
TaskPayloads == {<<>>, <<[id |-> 1, name |-> "A", status |-> "active", progress |-> 45]>>}

\* { ...robotData, ...sensorData }: the fields the alert rules can read
Merged(robotData, sensorData) ==
    [f \in (DOMAIN robotData \cup DOMAIN sensorData) \ {"coordinates"} |->
        IF f \in DOMAIN sensorData THEN sensorData[f] ELSE robotData[f]]

InitPoller ==
    /\ isConnected = FALSE
    /\ stateRobot = [battery |-> 0, speed |-> 0, temperature |-> 0,
                     coordinates |-> [lat |-> 0, lon |-> 0]]
    /\ stateSensors = [soilHumidity |-> 0, soilTemp |-> 0, light |-> 0, airHumidity |-> 0]
    /\ stateStatistics = [completedArea |-> 0, totalArea |-> 0, progress |-> 0]
    /\ stateTasks = <<>>
    /\ timers = <<>>
    /\ liveTimers = {}
    /\ nextTimerId = 1
    /\ pending = [c \in Cats |-> 0]
    /\ issued = 0
    /\ logList = <<>>
    /\ statusLog = <<>>
    /\ chartHistory = [labels |-> <<>>, battery |-> <<>>, soilHumidity |-> <<>>,
                       temperature |-> <<>>, light |-> <<>>]
    /\ chartFeed = <<>>

\* What the observer of status fetches appends for one completed fetch
ObserveStatus(ok, fired) ==
    LET l == Append(statusLog, [ok |-> ok, fired |-> fired, connected |-> isConnected,
                                polling |-> liveTimers # {}])
    IN  IF Len(l) > 3 THEN Tail(l) ELSE l

\* startAll(): the five start*Refresh calls; each fetches at once (the clock
\* only writes the DOM) and stores a fresh interval timer under its key
StartAll ==
    /\ nextTimerId + Len(TimerKeys) - 1 <= MaxTimers
    /\ issued + Cardinality(Cats) <= MaxRequests
    /\ LET new == [i \in 1..Len(TimerKeys) |-> nextTimerId + i - 1]
       IN  /\ timers' = [k \in DOMAIN timers \cup {TimerKeys[i] : i \in 1..Len(TimerKeys)} |->
                            LET i == CHOOSE j \in 1..Len(TimerKeys) : TimerKeys[j] = k IN new[i]]
           /\ liveTimers' = liveTimers \cup {[id |-> new[i], key |-> TimerKeys[i]] : i \in 1..Len(TimerKeys)}
    /\ nextTimerId' = nextTimerId + Len(TimerKeys)
    /\ pending' = [c \in Cats |-> pending[c] + 1]
    /\ issued' = issued + Cardinality(Cats)
    /\ UNCHANGED <<isConnected, stateRobot, stateSensors, stateStatistics, stateTasks,
                   logList, statusLog, chartVars>>
    /\ UNCHANGED <<alertVars, nonPoller>>

\* stopAll() that also gave up the fetches in flight
StopAll_Cancelling ==
    /\ liveTimers' = {tm \in liveTimers : \A k \in DOMAIN timers : timers[k] # tm.id}
    /\ timers' = <<>>
    /\ pending' = [c \in Cats |-> 0]
    /\ UNCHANGED <<isConnected, stateRobot, stateSensors, stateStatistics, stateTasks,
                   nextTimerId, issued, logList, statusLog, chartVars>>
    /\ UNCHANGED <<alertVars, nonPoller>>

\* stopAll(): clearInterval on every stored id, then State.timers = {}
StopAll ==
    /\ liveTimers' = {tm \in liveTimers : \A k \in DOMAIN timers : timers[k] # tm.id}
    /\ timers' = <<>>
    /\ UNCHANGED <<isConnected, stateRobot, stateSensors, stateStatistics, stateTasks,
                   nextTimerId, pending, issued, logList, statusLog, chartVars>>
    /\ UNCHANGED <<alertVars, nonPoller>>

\* A live interval timer of a polled category fires: refresh() issues a fetch
\* without waiting for earlier ones
TimerFire(tm) ==
    /\ tm \in liveTimers
    /\ tm.key \in Cats
    /\ issued < MaxRequests
    /\ pending' = [pending EXCEPT ![tm.key] = @ + 1]
    /\ issued' = issued + 1
    /\ UNCHANGED <<isConnected, stateRobot, stateSensors, stateStatistics, stateTasks,
                   timers, liveTimers, nextTimerId, logList, statusLog, chartVars>>
    /\ UNCHANGED <<alertVars, nonPoller>>

\* The status fetch resolves with success: onSuccess(result.data)
StatusSuccess(data) ==
    /\ pending["robot"] > 0
    /\ pending' = [pending EXCEPT !["robot"] = @ - 1]
    /\ stateRobot' = data
    /\ isConnected' = TRUE
    /\ logList' = IF ~isConnected THEN LogAdd(logList, "connected") ELSE logList
    /\ LET st0 == IF ~isConnected
                  THEN checkConnection(AlertState, TRUE, now, alertContainer)
                  ELSE AlertState
           st  == check(st0, Merged(data, stateSensors), now, alertContainer)
       IN  SetAlertState(st)
    /\ chartHistory' = IF stateSensors.soilHumidity # 0
                       THEN ChartUpdate(chartHistory, data, stateSensors, now)
                       ELSE chartHistory
    /\ chartFeed' = IF stateSensors.soilHumidity # 0
                    THEN Append(chartFeed, [robot |-> data, sensors |-> stateSensors,
                                            time |-> now])
                    ELSE chartFeed
    /\ statusLog' = ObserveStatus(TRUE, FALSE)
    /\ UNCHANGED <<stateSensors, stateStatistics, stateTasks, timers, liveTimers,
                   nextTimerId, issued>>
    /\ UNCHANGED <<now, alertContainer, evalLog, nonPoller>>

\* onFailure(): the transition fires only when the client was connected
onFailure_EveryTime == TRUE

onFailure_Fires == isConnected

\* The status fetch rejects (network error, timeout, non-2xx): onFailure()
StatusFailure ==
    /\ pending["robot"] > 0
    /\ pending' = [pending EXCEPT !["robot"] = @ - 1]
    /\ isConnected' = IF onFailure_Fires THEN FALSE ELSE isConnected
    /\ logList' = IF onFailure_Fires THEN LogAdd(logList, "disconnected") ELSE logList
    /\ IF onFailure_Fires
       THEN SetAlertState(checkConnection(AlertState, FALSE, now, alertContainer))
       ELSE UNCHANGED <<activeAlerts, alertHistory, notified, lastEval>>
    /\ statusLog' = ObserveStatus(FALSE, onFailure_Fires)
    /\ UNCHANGED <<stateRobot, stateSensors, stateStatistics, stateTasks, timers,
                   liveTimers, nextTimerId, issued, chartVars>>
    /\ UNCHANGED <<now, alertContainer, evalLog, nonPoller>>

\* A fetch resolves with a body whose success is false: neither callback runs
FetchRefused(c) ==
    /\ pending[c] > 0
    /\ pending' = [pending EXCEPT ![c] = @ - 1]
    /\ UNCHANGED <<isConnected, stateRobot, stateSensors, stateStatistics, stateTasks,
                   timers, liveTimers, nextTimerId, issued, logList, statusLog, chartVars>>
    /\ UNCHANGED <<alertVars, nonPoller>>

\* A catch block that gave up the category: clearInterval on its timer
FetchIgnored_StopsPolling(c) ==
    /\ c # "robot"
    /\ pending[c] > 0
    /\ pending' = [pending EXCEPT ![c] = @ - 1]
    /\ liveTimers' = {tm \in liveTimers : tm.key # c}
    /\ UNCHANGED <<isConnected, stateRobot, stateSensors, stateStatistics, stateTasks,
                   timers, nextTimerId, issued, logList, statusLog, chartVars>>
    /\ UNCHANGED <<alertVars, nonPoller>>

\* A fetch of a category polled through createRefreshHandler rejects (network
\* error, timeout, non-2xx): nothing but a console line
FetchIgnored(c) ==
    /\ c # "robot"
    /\ pending[c] > 0
    /\ pending' = [pending EXCEPT ![c] = @ - 1]
    /\ UNCHANGED <<isConnected, stateRobot, stateSensors, stateStatistics, stateTasks,
                   timers, liveTimers, nextTimerId, issued, logList, statusLog, chartVars>>
    /\ UNCHANGED <<alertVars, nonPoller>>

\* The sensors fetch resolves with success
SensorSuccess(data) ==
    /\ pending["sensors"] > 0
    /\ pending' = [pending EXCEPT !["sensors"] = @ - 1]
    /\ stateSensors' = data
    /\ SetAlertState(check(AlertState, Merged(stateRobot, data), now, alertContainer))
    /\ UNCHANGED <<isConnected, stateRobot, stateStatistics, stateTasks, timers,
                   liveTimers, nextTimerId, issued, logList, statusLog, chartVars>>
    /\ UNCHANGED <<now, alertContainer, evalLog, nonPoller>>

\* The statistics fetch resolves with success
StatisticsSuccess(data) ==
    /\ pending["stats"] > 0
    /\ pending' = [pending EXCEPT !["stats"] = @ - 1]
    /\ stateStatistics' = data
    /\ UNCHANGED <<isConnected, stateRobot, stateSensors, stateTasks, timers,
                   liveTimers, nextTimerId, issued, logList, statusLog, chartVars>>
    /\ UNCHANGED <<alertVars, nonPoller>>

\* The tasks fetch resolves with success
TasksSuccess(data) ==
    /\ pending["tasks"] > 0
    /\ pending' = [pending EXCEPT !["tasks"] = @ - 1]
    /\ stateTasks' = data
    /\ UNCHANGED <<isConnected, stateRobot, stateSensors, stateStatistics, timers,
                   liveTimers, nextTimerId, issued, logList, statusLog, chartVars>>
    /\ UNCHANGED <<alertVars, nonPoller>>

NextPoller ==
    \/ StartAll
    \/ StopAll
    \/ \E tm \in liveTimers : TimerFire(tm)
    \/ \E d \in RobotPayloads : StatusSuccess(d)
    \/ StatusFailure
    \/ \E c \in Cats : FetchRefused(c)
    \/ \E c \in Cats \ {"robot"} : FetchIgnored(c)
    \/ \E d \in SensorPayloads : SensorSuccess(d)
    \/ \E d \in StatisticsPayloads : StatisticsSuccess(d)
    \/ \E d \in TaskPayloads : TasksSuccess(d)


(***************************************************************************)
(* The data source adapter (backend/data/dataSource.js)                    *)
(***************************************************************************)
Types == {"serial", "mqtt", "http", "websocket", "database"}
StreamTypes == {"serial", "mqtt", "websocket"}
Topics == {"status", "sensors", "tasks", "statistics"}

\* { ...a, ...b }: a shallow merge, b's keys win
Spread(a, b) == [k \in DOMAIN a \cup DOMAIN b |-> IF k \in DOMAIN b THEN b[k] ELSE a[k]]

\* { k: obj.k, ... } as it is serialised: keys whose value is undefined are gone
Pick(obj, keys) == [k \in keys \cap DOMAIN obj |-> obj[k]]

\* Telemetry objects as hardware or an upstream server may send them
RobotObjects == {[battery |-> 85],
                 [coordinates |-> [lat |-> 41]],
                 [battery |-> 85, speed |-> 2, temperature |-> 28,
                  coordinates |-> [lat |-> 41, lon |-> 117]]}
SensorObjects == {[soilHumidity |-> 65]}
StatisticsObjects == {[completedArea |-> 15, totalArea |-> 40]}
TaskArrays == {<<[id |-> 1, name |-> "A", status |-> "active", progress |-> 45]>>}

ObjectsOf(cat) ==
    CASE cat = "robot"      -> RobotObjects
      [] cat = "sensors"    -> SensorObjects
      [] cat = "statistics" -> StatisticsObjects
      [] cat = "tasks"      -> TaskArrays

InitDataSource ==
    /\ cfgType = "mqtt"
    /\ cache = [robot      |-> [battery |-> 0, speed |-> 0, temperature |-> 0,
                                coordinates |-> [lat |-> 0, lon |-> 0]],
                sensors    |-> [soilHumidity |-> 0, soilTemp |-> 0, light |-> 0,
                                airHumidity |-> 0],
                tasks      |-> <<>>,
                statistics |-> [completedArea |-> 0, totalArea |-> 0, progress |-> 0],
                lastUpdate |-> <<>>]
    /\ dsConnected = FALSE
    /\ connection = "null"
    /\ orphans = 0
    /\ wsTimers = 0
    /\ sent = 0
    /\ lastWrite = [op |-> "none"]
    /\ lastRead = [fn |-> "none"]
    /\ lastControl = [status |-> 0]
    /\ tornDown = FALSE
    /\ closeReturned = FALSE
    /\ lastEvent = "none"
    /\ drops = 0

\* CONFIG.type is edited before the server starts
Configure(t) ==
    /\ cfgType = "mqtt" /\ t # "mqtt"
    /\ connection = "null" /\ ~dsConnected
    /\ lastWrite.op = "none" /\ lastRead.fn = "none" /\ lastControl.status = 0
    /\ cfgType' = t
    /\ UNCHANGED <<cache, dsConnected, connection, orphans, wsTimers, sent, lastWrite,
                   lastRead, lastControl, tornDown, closeReturned, lastEvent, drops>>
    /\ UNCHANGED nonDs

\* init(): the stream transports create their connection object, the database
\* transport awaits its connection, http only sets the flag
DsInit ==
    /\ connection = "null"
    /\ connection' = CASE cfgType \in StreamTypes -> "connecting"
                       [] cfgType = "database" -> "open"
                       [] OTHER -> connection
    /\ dsConnected' = IF cfgType \in {"database", "http"} THEN TRUE ELSE dsConnected
    /\ tornDown' = FALSE
    /\ closeReturned' = FALSE
    /\ UNCHANGED <<cfgType, cache, orphans, wsTimers, sent, lastWrite, lastRead, lastControl, lastEvent, drops>>
    /\ UNCHANGED nonDs

\* init() of a transport whose library is missing or whose connection attempt
\* is refused: the error is logged and the state stays as it was
DsInitFails ==
    /\ connection = "null"
    /\ cfgType # "http"
    /\ tornDown' = FALSE
    /\ closeReturned' = FALSE
    /\ UNCHANGED <<cfgType, cache, dsConnected, connection, orphans, wsTimers, sent,
                   lastWrite, lastRead, lastControl, lastEvent, drops>>
    /\ UNCHANGED nonDs

\* 'open' (serial, websocket) or 'connect' (mqtt, also after its own reconnect)
ConnOpen ==
    /\ cfgType \in StreamTypes
    /\ connection \in (IF cfgType = "mqtt" THEN {"connecting", "closed"} ELSE {"connecting"})
    /\ connection' = "open"
    /\ dsConnected' = TRUE
    /\ lastEvent' = "open"
    /\ UNCHANGED <<cfgType, cache, orphans, wsTimers, sent, lastWrite, lastRead, lastControl,
                   tornDown, closeReturned, drops>>
    /\ UNCHANGED nonDs

\* 'error' on the connection: serial and mqtt clear the flag, websocket only logs
ConnError ==
    /\ cfgType \in StreamTypes
    /\ connection \in {"connecting", "open"}
    /\ dsConnected' = IF cfgType = "websocket" THEN dsConnected ELSE FALSE
    /\ lastEvent' = IF connection = "open" THEN "error" ELSE lastEvent
    /\ UNCHANGED <<cfgType, cache, connection, orphans, wsTimers, sent, lastWrite,
                   lastRead, lastControl, tornDown, closeReturned, drops>>
    /\ UNCHANGED nonDs

\* 'close' on the current connection: mqtt and websocket clear the flag, and
\* websocket schedules initWebSocket; serial registers no close handler
ConnClosed ==
    /\ cfgType \in StreamTypes
    /\ connection \in {"connecting", "open"}
    /\ cfgType = "websocket" => wsTimers < MaxWsTimers
    /\ connection' = "closed"
    /\ dsConnected' = IF cfgType = "serial" THEN dsConnected ELSE FALSE
    /\ wsTimers' = IF cfgType = "websocket" THEN wsTimers + 1 ELSE wsTimers
    /\ lastEvent' = IF connection = "open" THEN "close" ELSE lastEvent
    /\ UNCHANGED <<cfgType, cache, orphans, sent, lastWrite, lastRead, lastControl, tornDown, closeReturned, drops>>
    /\ UNCHANGED nonDs

\* The websocket reconnect timer fires: initWebSocket() replaces the connection
WsReconnect ==
    /\ wsTimers > 0
    /\ wsTimers' = wsTimers - 1
    /\ connection' = "connecting"
    /\ UNCHANGED <<cfgType, cache, dsConnected, orphans, sent, lastWrite, lastRead, lastControl, tornDown, closeReturned, lastEvent, drops>>
    /\ UNCHANGED nonDs

\* close(): only with a connection object; the object's own close event follows later
DsClose ==
    /\ connection # "null"
    /\ orphans' = IF cfgType \in StreamTypes /\ connection # "closed" /\ orphans < 1
                  THEN orphans + 1 ELSE orphans
    /\ dsConnected' = FALSE
    /\ connection' = "null"
    /\ tornDown' = (connection = "open")
    /\ closeReturned' = TRUE
    /\ UNCHANGED <<cfgType, cache, wsTimers, sent, lastWrite, lastRead, lastControl, lastEvent, drops>>
    /\ UNCHANGED nonDs

\* close() without a connection object does nothing
DsCloseNoop ==
    /\ connection = "null"
    /\ closeReturned' = TRUE
    /\ UNCHANGED <<cfgType, cache, dsConnected, connection, orphans, wsTimers, sent,
                   lastWrite, lastRead, lastControl, tornDown, lastEvent, drops>>
    /\ UNCHANGED nonDs

\* The close event of a connection object that close() has let go of
OrphanClosed ==
    /\ orphans > 0
    /\ cfgType = "websocket" => wsTimers < MaxWsTimers
    /\ orphans' = orphans - 1
    /\ dsConnected' = IF cfgType = "serial" THEN dsConnected ELSE FALSE
    /\ wsTimers' = IF cfgType = "websocket" THEN wsTimers + 1 ELSE wsTimers
    /\ UNCHANGED <<cfgType, cache, connection, sent, lastWrite, lastRead, lastControl, tornDown, closeReturned, lastEvent, drops>>
    /\ UNCHANGED nonDs

\* The mqtt 'message' handler on a payload that parses to an object (status,
\* sensors, statistics) or to anything (tasks)
mqttMerge(old, data) == Spread(old, data)

MqttMessage(topic, data) ==
    /\ cfgType = "mqtt" /\ connection = "open"
    /\ cache' = CASE topic = "status"     -> [cache EXCEPT !.robot = mqttMerge(@, data), !.lastUpdate = <<now>>]
                  [] topic = "sensors"    -> [cache EXCEPT !.sensors = mqttMerge(@, data), !.lastUpdate = <<now>>]
                  [] topic = "statistics" -> [cache EXCEPT !.statistics = mqttMerge(@, data), !.lastUpdate = <<now>>]
                  [] topic = "tasks"      -> [cache EXCEPT !.tasks = data, !.lastUpdate = <<now>>]
    /\ lastWrite' = [op |-> "mqtt", cat |-> IF topic = "status" THEN "robot" ELSE topic,
                     data |-> data, before |-> cache[IF topic = "status" THEN "robot" ELSE topic]]
    /\ UNCHANGED <<cfgType, dsConnected, connection, orphans, wsTimers, sent, lastRead, lastControl, tornDown, closeReturned, lastEvent, drops>>
    /\ UNCHANGED nonDs

\* The tasks topic with a payload that is no array: the task list becomes []
MqttTasksNotArray ==
    /\ cfgType = "mqtt" /\ connection = "open"
    /\ cache' = [cache EXCEPT !.tasks = <<>>, !.lastUpdate = <<now>>]
    /\ lastWrite' = [op |-> "mqtt", cat |-> "tasks", data |-> <<>>, before |-> cache.tasks]
    /\ drops < MaxDrops
    /\ drops' = drops + 1
    /\ UNCHANGED <<cfgType, dsConnected, connection, orphans, wsTimers, sent, lastRead,
                   lastControl, tornDown, closeReturned, lastEvent>>
    /\ UNCHANGED nonDs

\* updateCache(data) from the serial parser or the websocket 'message' handler,
\* for a message that carries one category
updateCache(c, cat, data) ==
    CASE cat = "robot"      -> [c EXCEPT !.robot = Spread(@, data), !.lastUpdate = <<now>>]
      [] cat = "sensors"    -> [c EXCEPT !.sensors = Spread(@, data), !.lastUpdate = <<now>>]
      [] cat = "statistics" -> [c EXCEPT !.statistics = Spread(@, data), !.lastUpdate = <<now>>]
      [] cat = "tasks"      -> [c EXCEPT !.tasks = data, !.lastUpdate = <<now>>]

StreamMessage(cat, data) ==
    /\ cfgType \in {"serial", "websocket"} /\ connection = "open"
    /\ cache' = updateCache(cache, cat, data)
    /\ lastWrite' = [op |-> "updateCache", cat |-> cat, data |-> data, before |-> cache[cat]]
    /\ UNCHANGED <<cfgType, dsConnected, connection, orphans, wsTimers, sent, lastRead, lastControl, tornDown, closeReturned, lastEvent, drops>>
    /\ UNCHANGED nonDs

\* A payload JSON.parse rejects (and, on serial and websocket, the payload
\* null, on which updateCache throws): caught and logged, nothing written
MalformedMessage ==
    /\ cfgType \in StreamTypes /\ connection = "open"
    /\ drops < MaxDrops
    /\ drops' = drops + 1
    /\ UNCHANGED <<cfgType, cache, dsConnected, connection, orphans, wsTimers, sent,
                   lastWrite, lastRead, lastControl, tornDown, closeReturned, lastEvent>>
    /\ UNCHANGED nonDs

\* A payload that is JSON but no object, such as 42, on a topic other than
\* tasks or on serial / websocket: the spread of a number adds no field and
\* updateCache finds no category in it, and both then set lastUpdate
UnstructuredMessage ==
    /\ cfgType \in StreamTypes /\ connection = "open"
    /\ drops < MaxDrops
    /\ drops' = drops + 1
    /\ cache' = [cache EXCEPT !.lastUpdate = <<now>>]
    /\ UNCHANGED <<cfgType, dsConnected, connection, orphans, wsTimers, sent,
                   lastWrite, lastRead, lastControl, tornDown, closeReturned, lastEvent>>
    /\ UNCHANGED nonDs

\* httpRequest(): the upstream fetch rejects (network error, timeout, non-2xx
\* status) or resolves to a JSON body {success, data}
HttpFailures == {"network", "timeout", "status"}
\* result.data of a body that carries no data key
Undefined == [undefined |-> TRUE]
BodyData(cat) == ObjectsOf(cat) \cup (IF cat = "tasks" THEN {} ELSE {Undefined})
HttpResponses(cat) ==
    {[kind |-> k] : k \in HttpFailures}
    \cup {[kind |-> "body", success |-> ok, data |-> d] : ok \in BOOLEAN, d \in BodyData(cat)}

FetchFailed(outcome) == outcome \in HttpFailures \cup {"success_false"}

\* cache.<cat>.<field> on a category that is undefined is a TypeError; getTasks
\* returns cache.tasks itself
ReadThrows(c, cat) == cat # "tasks" /\ c[cat] = Undefined

\* The value a read function returns from the cache
ReadResult(c, cat) ==
    CASE cat = "robot"      -> Pick(c.robot, {"battery", "speed", "temperature", "coordinates"})
      [] cat = "sensors"    -> Pick(c.sensors, {"soilHumidity", "soilTemp", "light", "airHumidity"})
      [] cat = "statistics" -> Pick(c.statistics, {"completedArea", "totalArea", "progress"})
      [] cat = "tasks"      -> c.tasks

\* The http branch of a read function: try { result = await httpRequest(...);
\* if (result.success) cache.<cat> = result.data } catch { }
httpStore(c, cat, resp) ==
    IF resp.kind = "body" /\ resp.success THEN [c EXCEPT ![cat] = resp.data] ELSE c

\* getRobotStatus / getSensorData / getStatistics / getTasks on a transport
\* other than http: no fetch
Read(cat) ==
    /\ cfgType # "http"
    /\ lastRead' = [fn |-> cat, outcome |-> "none", before |-> cache[cat], threw |-> FALSE,
                    result |-> ReadResult(cache, cat)]
    /\ UNCHANGED <<cfgType, cache, dsConnected, connection, orphans, wsTimers, sent,
                   lastWrite, lastControl, tornDown, closeReturned, lastEvent, drops>>
    /\ UNCHANGED nonDs

\* The same with http: the fetch, the conditional store, the result from the cache
ReadHttp(cat, resp) ==
    /\ cfgType = "http"
    /\ cache' = httpStore(cache, cat, resp)
    /\ lastRead' = [fn |-> cat,
                    outcome |-> IF resp.kind # "body" THEN resp.kind
                                ELSE IF resp.success THEN "ok" ELSE "success_false",
                    before |-> cache[cat], threw |-> ReadThrows(cache', cat),
                    result |-> ReadResult(cache', cat)]
    /\ lastWrite' = IF resp.kind = "body" /\ resp.success
                    THEN [op |-> "http", cat |-> cat, data |-> resp.data, before |-> cache[cat]]
                    ELSE lastWrite
    /\ UNCHANGED <<cfgType, dsConnected, connection, orphans, wsTimers, sent, lastControl, tornDown, closeReturned, lastEvent, drops>>
    /\ UNCHANGED nonDs

\* getTasks on the database transport with a connection: the rows replace the
\* task list (a failed query is caught and leaves it, as in Read)
ReadTasksDatabase(rows) ==
    /\ cfgType = "database" /\ connection = "open"
    /\ cache' = [cache EXCEPT !.tasks = rows]
    /\ lastRead' = [fn |-> "tasks", outcome |-> "none", before |-> cache.tasks,
                    threw |-> FALSE, result |-> rows]
    /\ lastWrite' = [op |-> "database", cat |-> "tasks", data |-> rows, before |-> cache.tasks]
    /\ UNCHANGED <<cfgType, dsConnected, connection, orphans, wsTimers, sent, lastControl, tornDown, closeReturned, lastEvent, drops>>
    /\ UNCHANGED nonDs

\* What a caller writes into a result it was handed
CallerMark == 99

\* The cache after a caller has written into every part of the object a read
\* of cat returned. getRobotStatus, getSensorData and getStatistics build a
\* new object of the fields, so writing a field of it leaves the cache; but
\* coordinates is the cache's own object, and getTasks returns the cache's
\* own array.
mutateReturned(c, cat) ==
    CASE cat = "robot" ->
           IF "coordinates" \in DOMAIN c.robot
           THEN [c EXCEPT !.robot.coordinates = Spread(@, [lat |-> CallerMark])]
           ELSE c
      [] cat = "tasks" ->
           [c EXCEPT !.tasks = Append(@, [id |-> CallerMark, name |-> "mutated",
                                          status |-> "pending", progress |-> 0])]
      [] OTHER -> c

\* A caller awaits a read and writes into the result at once (any transport
\* but http, where the same return statements follow the fetch)
ReadAndMutate(cat) ==
    /\ cfgType # "http"
    /\ cat = "tasks" => \A i \in 1..Len(cache.tasks) : cache.tasks[i].id # CallerMark
    /\ cache' = mutateReturned(cache, cat)
    /\ lastRead' = [fn |-> cat, outcome |-> "none", before |-> cache[cat], threw |-> FALSE,
                    result |-> ReadResult(cache', cat)]
    /\ UNCHANGED <<cfgType, dsConnected, connection, orphans, wsTimers, sent,
                   lastWrite, lastControl, tornDown, closeReturned, lastEvent, drops>>
    /\ UNCHANGED nonDs

CacheCats == {"robot", "sensors", "statistics", "tasks"}
TopicCat(topic) == IF topic = "status" THEN "robot" ELSE topic


\* handleCommand(command): the label table, the send of the configured
\* transport, the acknowledgment. outcome is how httpRequest ended (http only).
\* The Chinese labels and message texts are written in pinyin.
COMMAND_LABELS == [forward |-> "qianjin", backward |-> "houtui", left |-> "zuozhuan", right |-> "youzhuan", stop |-> "tingzhi"]
ACTION_LABELS == [irrigation |-> "guangai", fertilize |-> "shifei", scan |-> "saomiao", harvest |-> "shouge"]

\* Both tables are object literals: a key that is no entry of the table is
\* looked up in Object.prototype, whose members are functions (truthy); in a
\* template literal a function is rendered as its source text
ObjectPrototype == [constructor |-> "function Object() { [native code] }",
                    toString |-> "function toString() { [native code] }"]

\* TABLE[code] || code
LabelOf(table, code) ==
    IF code \in DOMAIN table THEN table[code]
    ELSE IF code \in DOMAIN ObjectPrototype THEN ObjectPrototype[code]
    ELSE code

\* TRUE when the call reaches publish / write / send / a fetch that resolves
Handed(outcome) ==
    CASE cfgType = "http"      -> outcome = "ok"
      [] cfgType = "mqtt"      -> connection # "null"
      [] cfgType = "serial"    -> connection # "null"
      [] cfgType = "websocket" -> connection = "open"
      [] OTHER                 -> FALSE

handleCommand(command, outcome) ==
    LET commandName == LabelOf(COMMAND_LABELS, command)
    IN  IF cfgType = "http" /\ outcome # "ok"
        THEN [executed |-> FALSE, command |-> command,
              message |-> <<"zhiling fasong shibai: ", outcome>>]
        ELSE [executed |-> TRUE, command |-> command,
              message |-> <<"zhiling yi fasong: ", commandName>>]

handleAction(action, outcome) ==
    LET actionName == LabelOf(ACTION_LABELS, action)
    IN  IF cfgType = "http" /\ outcome # "ok"
        THEN [executed |-> FALSE, action |-> action,
              message |-> <<"caozuo fasong shibai: ", outcome>>]
        ELSE [executed |-> TRUE, action |-> action,
              message |-> <<actionName, "zuoye yi qidong">>]

\* The transport can carry a command now
TransportAvailable(outcome) ==
    CASE cfgType = "http"      -> outcome = "ok"
      [] cfgType = "mqtt"      -> connection # "null" /\ dsConnected
      [] cfgType = "serial"    -> connection # "null" /\ dsConnected
      [] cfgType = "websocket" -> connection = "open"
      [] OTHER                 -> FALSE

(***************************************************************************)
(* The control endpoint (exports.sendCommand of robotController.js)        *)
(***************************************************************************)
ControlBodies == {<<>>,
                  [command |-> "forward"],
                  [command |-> "dance"],
                  [command |-> "constructor"],
                  [command |-> ""],
                  [action |-> "scan"],
                  [command |-> "forward", action |-> "scan"]}

\* A parameter of the body that is present and not the empty string
Given(body, k) == k \in DOMAIN body /\ body[k] # ""

\* if (!command && !action) return sendError(res, ..., 400)
Rejected(body) == ~Given(body, "command") /\ ~Given(body, "action")

\* A response that reports what the dispatcher reports
sendSuccess_AsExecuted(data, extra) ==
    [success |-> extra.executed, data |-> data] @@ extra

\* sendSuccess(res, data, extra): { success: true, data, timestamp, ...extra },
\* the fields of extra last
sendSuccess(data, extra) == extra @@ [success |-> TRUE, data |-> data]

SendOutcomes == IF cfgType = "http" THEN HttpFailures \cup {"ok"} ELSE {"none"}

SendCommand(body, outcome) ==
    /\ sent < MaxSent
    /\ IF Rejected(body)
       THEN /\ lastControl' = [status |-> 400, body |-> body, success |-> FALSE,
                               dispatched |-> "none"]
            /\ sent' = sent
       ELSE LET kind == IF Given(body, "command") THEN "command" ELSE "action"
                result == IF kind = "command"
                          THEN handleCommand(body.command, outcome)
                          ELSE handleAction(body.action, outcome)
            IN  /\ lastControl' = [status |-> 200, body |-> body,
                                   success |-> sendSuccess("null", result).success,
                                   response |-> sendSuccess("null", result),
                                   dispatched |-> kind, result |-> result,
                                   handed |-> Handed(outcome),
                                   available |-> TransportAvailable(outcome)]
                /\ sent' = IF Handed(outcome) THEN sent + 1 ELSE sent
    /\ UNCHANGED <<cfgType, cache, dsConnected, connection, orphans, wsTimers, lastWrite, lastRead, tornDown, closeReturned, lastEvent, drops>>
    /\ UNCHANGED nonDs

\* The telemetry cache: configuration, connecting, inbound messages and reads
NextCache ==
    \/ \E t \in Types : Configure(t)
    \/ DsInit
    \/ ConnOpen
    \/ \E t \in Topics : \E d \in ObjectsOf(TopicCat(t)) : MqttMessage(t, d)
    \/ MqttTasksNotArray
    \/ \E c \in CacheCats : \E d \in ObjectsOf(c) : StreamMessage(c, d)
    \/ MalformedMessage
    \/ UnstructuredMessage
    \/ \E c \in CacheCats : Read(c)
    \/ \E c \in CacheCats : \E r \in HttpResponses(c) : ReadHttp(c, r)
    \/ \E rows \in TaskArrays : ReadTasksDatabase(rows)
    \/ \E c \in CacheCats : ReadAndMutate(c)

\* The transports: configuration, connection life cycle and the control endpoint
NextTransport ==
    \/ \E t \in Types : Configure(t)
    \/ DsInit
    \/ DsInitFails
    \/ ConnOpen
    \/ ConnError
    \/ ConnClosed
    \/ WsReconnect
    \/ DsClose
    \/ DsCloseNoop
    \/ OrphanClosed
    \/ \E b \in ControlBodies : \E o \in SendOutcomes : SendCommand(b, o)

(***************************************************************************)
(* Claims about the data source cache                                      *)
(***************************************************************************)
\* The leaves of a telemetry object: <<field>>, or <<"coordinates", key>>
Paths(obj) ==
    {<<k>> : k \in DOMAIN obj \ {"coordinates"}}
    \cup (IF "coordinates" \in DOMAIN obj
          THEN {<<"coordinates", j>> : j \in DOMAIN obj.coordinates} ELSE {})
Leaf(obj, p) == IF Len(p) = 1 THEN obj[p[1]] ELSE obj[p[1]][p[2]]

\* C6: after an inbound update of robot, sensors or statistics (mqtt message,
\* updateCache, http read), every leaf field the category held before and the
\* payload does not carry is still there with its previous value, the sibling
\* inside coordinates included.
C6_AbsentFieldsKept ==
    (lastWrite.op # "none" /\ lastWrite.cat # "tasks")
    => \A p \in Paths(lastWrite.before) \ Paths(lastWrite.data) :
           /\ p \in Paths(cache[lastWrite.cat])
           /\ Leaf(cache[lastWrite.cat], p) = Leaf(lastWrite.before, p)

\* C7: with the http transport, a read whose upstream fetch failed (network
\* error, timeout, non-2xx status, body with success=false) does not throw,
\* leaves the category as it was and returns it.
C7_StaleReadOnFailure ==
    (lastRead.fn # "none" /\ FetchFailed(lastRead.outcome))
    => /\ ~lastRead.threw
       /\ cache[lastRead.fn] = lastRead.before
       /\ lastRead.result = lastRead.before

\* C15: after close() has run on an established connection, and until init()
\* is called again, the adapter holds no pending timer and no connection, and
\* is not connected.
C15_ClosedStaysClosed ==
    tornDown => connection = "null" /\ ~dsConnected /\ wsTimers = 0

\* C16: on a stream transport, an error or close event on an established
\* connection leaves the adapter disconnected, and the adapter is connected
\* only after an open / connect event.
C16_EventsSetConnected ==
    cfgType \in StreamTypes
    => /\ lastEvent \in {"error", "close"} => ~dsConnected
       /\ dsConnected => lastEvent = "open"

\* C18: an inbound payload that cannot be parsed as structured telemetry is
\* dropped: the step that receives it leaves every cache category and
\* cache.lastUpdate as they were.
C18_UnparsedIsDropped == [][drops' # drops => cache' = cache]_vars

\* A read result that shows what a caller wrote into an earlier result
Marked(result, cat) ==
    CASE cat = "robot" -> /\ "coordinates" \in DOMAIN result
                          /\ "lat" \in DOMAIN result.coordinates
                          /\ result.coordinates.lat = CallerMark
      [] cat = "tasks" -> \E i \in 1..Len(result) : result[i].id = CallerMark
      [] OTHER -> \E k \in DOMAIN result : result[k] = CallerMark

\* C17: whatever a caller wrote into a returned object, the nested coordinates
\* and the task array included, no read returns it.
C17_ResultsAreCopies ==
    \A cat \in CacheCats : ~ReadThrows(cache, cat) => ~Marked(ReadResult(cache, cat), cat)

(***************************************************************************)
(* Claims about the control path                                           *)
(***************************************************************************)
\* C8: handleCommand / handleAction return executed=false whenever the
\* configured transport is unavailable, and executed=true only when the
\* command was handed to the transport.
C8_ExecutedOnlyWhenHanded ==
    lastControl.status = 200
    => /\ lastControl.result.executed => lastControl.handed
       /\ ~lastControl.available => ~lastControl.result.executed

\* C9: a control request whose body carries both command and action is
\* rejected with 400 and nothing is dispatched to the data layer.
C9_BothPresentRejected ==
    (lastControl.status # 0 /\ DOMAIN lastControl.body = {"command", "action"})
    => lastControl.status = 400 /\ lastControl.dispatched = "none"

\* C22: a command code that reaches the dispatcher on a transport that does
\* not fail is acknowledged with executed = true, the code itself and the text
\* "zhiling yi fasong: " followed by its label: the table entry for forward,
\* backward, left, right and stop, the raw code for every other code; the
\* endpoint answers success = true.
C22_CommandAcknowledged ==
    (lastControl.status = 200 /\ lastControl.dispatched = "command"
     /\ (cfgType = "http" => lastControl.handed))
    => LET c == lastControl.body.command
       IN  /\ lastControl.success
           /\ lastControl.result.executed
           /\ lastControl.result.command = c
           /\ lastControl.result.message =
                  <<"zhiling yi fasong: ",
                    IF c \in {"forward", "backward", "left", "right", "stop"}
                    THEN COMMAND_LABELS[c] ELSE c>>

\* C39: when close() returns, the connected flag that getConnectionStatus()
\* reports is false, whatever the configured transport type and whether or
\* not a connection object existed.
C39_CloseDisconnects ==
    [][(DsClose \/ DsCloseNoop) => ~dsConnected']_vars

\* C33: every control request that passes the parameter check is answered
\* with status 200 and success = true, and every field of the dispatcher's
\* result is a field of the response with the same value, also when the
\* dispatcher reports executed = false.
C33_ControlAlwaysSucceeds ==
    (lastControl.status # 0 /\ ~Rejected(lastControl.body))
    => /\ lastControl.status = 200
       /\ lastControl.response.success
       /\ lastControl.response.data = "null"
       /\ \A k \in DOMAIN lastControl.result :
              /\ k \in DOMAIN lastControl.response
              /\ lastControl.response[k] = lastControl.result[k]

\* The http send has failed and the endpoint has answered success = true
\* with executed = false
C33_Witness ==
    /\ lastControl.status = 200
    /\ cfgType = "http"
    /\ ~lastControl.handed
    /\ lastControl.response.success
    /\ ~lastControl.response.executed

(***************************************************************************)
(* The mock data layer's task store (backend/data/mockData.js, held in     *)
(* robotController.js)                                                     *)
(***************************************************************************)
InitTasks ==
    /\ tasks = << [id |-> 1, name |-> "A qu guangai zuoye", status |-> "active", progress |-> 45],
                  [id |-> 2, name |-> "B qu bingchonghai jiance", status |-> "pending", progress |-> 0],
                  [id |-> 3, name |-> "D qu shifei zuoye", status |-> "done", progress |-> 100] >>
    /\ retiredIds = {}

TaskIds(ts) == {ts[i].id : i \in 1..Len(ts)}

MaxOf(S) == CHOOSE m \in S : \A x \in S : x <= m

\* const clamp = (value, min, max) => Math.min(Math.max(value, min), max)
clamp(value, lo, hi) ==
    LET m == IF value > lo THEN value ELSE lo IN IF m < hi THEN m ELSE hi

newId_FromLength(ts) == Len(ts) + 1

\* const newId = tasks.length > 0 ? Math.max(...ids) + 1 : 1
newId(ts) == IF Len(ts) > 0 THEN MaxOf(TaskIds(ts)) + 1 ELSE 1

TaskInputs == {[name |-> "X"], [name |-> "Y", status |-> "active", progress |-> 50],
               [name |-> "W", status |-> "paused", progress |-> 150]}

createTask(ts, taskData) ==
    Append(ts, [id       |-> newId(ts),
                name     |-> taskData.name,
                status   |-> IF "status" \in DOMAIN taskData THEN taskData.status ELSE "pending",
                progress |-> IF "progress" \in DOMAIN taskData THEN taskData.progress ELSE 0])

CreateTask(taskData) ==
    /\ Len(tasks) < MaxTasks
    /\ newId(tasks) <= MaxTaskId
    /\ tasks' = createTask(tasks, taskData)
    /\ UNCHANGED retiredIds
    /\ UNCHANGED nonTasks

\* tasks = tasks.filter(t => t.id !== taskId)
deleteTask(ts, taskId) == SelectSeq(ts, LAMBDA t : t.id # taskId)

DeleteTask(taskId) ==
    /\ tasks' = deleteTask(tasks, taskId)
    /\ retiredIds' = IF taskId \in TaskIds(tasks) THEN retiredIds \cup {taskId} ELSE retiredIds
    /\ UNCHANGED nonTasks

\* updateTask(taskId, updateData): the fields supplied replace the task's, the
\* progress clamped to 0..100; an unknown id changes nothing
UpdateInputs == {[name |-> "Z", progress |-> 150]}

updateTask(ts, taskId, updateData) ==
    [i \in 1..Len(ts) |->
        IF ts[i].id # taskId THEN ts[i]
        ELSE [id       |-> ts[i].id,
              name     |-> IF "name" \in DOMAIN updateData THEN updateData.name ELSE ts[i].name,
              status   |-> IF "status" \in DOMAIN updateData THEN updateData.status
                           ELSE ts[i].status,
              progress |-> IF "progress" \in DOMAIN updateData
                           THEN clamp(updateData.progress, 0, 100) ELSE ts[i].progress]]

UpdateTask(taskId, updateData) ==
    /\ tasks' = updateTask(tasks, taskId, updateData)
    /\ UNCHANGED retiredIds
    /\ UNCHANGED nonTasks

NextTasks ==
    \/ \E d \in TaskInputs : CreateTask(d)
    \/ \E id \in 1..MaxTaskId : \E d \in UpdateInputs : UpdateTask(id, d)
    \/ \E id \in 1..MaxTaskId : DeleteTask(id)

\* C11: after any sequence of createTask, updateTask and deleteTask calls no
\* two tasks of the list have the same id.
C11_UniqueIds ==
    \A i, j \in 1..Len(tasks) : tasks[i].id = tasks[j].id => i = j

\* a list that went through a delete, a create and an update
C11_Witness ==
    /\ retiredIds # {}
    /\ Len(tasks) >= 3
    /\ \E i \in 1..Len(tasks) : tasks[i].id > 3
    /\ \E i \in 1..Len(tasks) : tasks[i].name = "Z" /\ tasks[i].progress = 100

\* C25: after any sequence of createTask and updateTask calls every task of
\* the list has a progress within 0..100 and a status among active, pending
\* and done.
C25_TaskFieldsInRange ==
    \A i \in 1..Len(tasks) :
        /\ tasks[i].progress \in 0..100
        /\ tasks[i].status \in {"active", "pending", "done"}

\* C10: no task in the list carries an id that belonged to a task deleted
\* earlier.
C10_IdsNeverReused == \A i \in 1..Len(tasks) : tasks[i].id \notin retiredIds

(***************************************************************************)
(* C4: three consecutive failed status fetches.                            *)
(***************************************************************************)
ThreeFailures == Len(statusLog) = 3 /\ \A i \in 1..3 : ~statusLog[i].ok

FiredCount == Cardinality({i \in 1..Len(statusLog) : statusLog[i].fired})

\* C4 as stated: over three consecutive failed status fetches the
\* "disconnected" transition fires exactly once.
C4_AsStated == ThreeFailures => FiredCount = 1

\* C4 amended: over three consecutive failed completions of the status fetch
\* (no successful completion between them) the transition fires at most once:
\* on the first of them when the client was connected at that moment, and not
\* at all when it was already (or still, as at start-up) disconnected; the
\* client is disconnected afterwards.
C4_Amended ==
    ThreeFailures =>
        /\ FiredCount = (IF statusLog[1].connected THEN 1 ELSE 0)
        /\ statusLog[1].fired = statusLog[1].connected
        /\ ~isConnected

\* three failures in a row that began while connected, with the log entry
\* written and the synthetic alert raised
C4_Witness ==
    /\ ThreeFailures
    /\ statusLog[1].connected
    /\ logList # <<>> /\ logList[1] = "disconnected"
    /\ "disconnected" \in DOMAIN activeAlerts

\* C24: the 'disconnected' alert is active after a status fetch that moved the
\* client to disconnected, and in every state in which State.isConnected is
\* true the rule id 'disconnected' is not in AlertService.activeAlerts.
C24_NoOfflineAlertWhileConnected ==
    /\ isConnected => "disconnected" \notin DOMAIN activeAlerts
    /\ (Len(statusLog) > 0 /\ statusLog[Len(statusLog)].fired)
       => ~isConnected /\ "disconnected" \in DOMAIN activeAlerts

\* The client is connected again after it had been disconnected
C24_Witness ==
    /\ isConnected
    /\ \E i \in 1..Len(alertHistory) : alertHistory[i].id = "disconnected"
    /\ Len(statusLog) >= 2 /\ statusLog[Len(statusLog) - 1].fired

\* C32: stopAll() leaves the fetches in flight alone, and a status fetch that
\* completes when no interval timer is alive any more is applied like any
\* other: on success State.robot and State.isConnected are written, the alert
\* rules are evaluated on the new data and the chart gets its sample; on failure
\* a connected client goes through the 'disconnected' transition.
C32_LateResultApplied ==
    [][/\ StopAll => pending' = pending
       /\ \A d \in RobotPayloads : (liveTimers = {} /\ StatusSuccess(d)) =>
              /\ stateRobot' = d
              /\ isConnected'
              /\ ("lowBattery" \in DOMAIN activeAlerts') = (d.battery < 20)
              /\ stateSensors.soilHumidity # 0 =>
                     /\ Len(chartFeed') = Len(chartFeed) + 1
                     /\ chartFeed'[Len(chartFeed')].robot = d
       /\ (liveTimers = {} /\ isConnected /\ StatusFailure) =>
              /\ ~isConnected'
              /\ "disconnected" \in DOMAIN activeAlerts'
              /\ logList' # logList]_vars

\* A status fetch issued before stopAll() has succeeded after it: no interval
\* timer is alive, the client has become connected and holds the fetched data
C32_Witness ==
    /\ timers = <<>> /\ liveTimers = {}
    /\ Len(statusLog) > 0
    /\ statusLog[Len(statusLog)].ok
    /\ ~statusLog[Len(statusLog)].polling
    /\ ~statusLog[Len(statusLog)].connected
    /\ isConnected
    /\ stateRobot \in RobotPayloads
    /\ Len(chartFeed) > 0 /\ chartFeed[Len(chartFeed)].robot = stateRobot

\* C37: a fetch that completes, with success or with failure, changes no
\* interval timer: between startAll() and stopAll() every category has a
\* stored timer and every stored timer is alive, whatever the fetches of the
\* other categories did.
C37_FailuresIsolated ==
    /\ [](\A k \in DOMAIN timers : [id |-> timers[k], key |-> k] \in liveTimers)
    /\ [](DOMAIN timers # {} =>
             DOMAIN timers = {TimerKeys[i] : i \in 1..Len(TimerKeys)})
    /\ [][(\E c \in Cats : pending'[c] < pending[c]) =>
              /\ timers' = timers
              /\ liveTimers' = liveTimers]_vars

\* The status fetch has failed while polling, the sensors were fetched and
\* applied, another sensors fetch is under way and every timer is alive
C37_Witness ==
    /\ DOMAIN timers = {TimerKeys[i] : i \in 1..Len(TimerKeys)}
    /\ \A k \in DOMAIN timers : [id |-> timers[k], key |-> k] \in liveTimers
    /\ Len(statusLog) > 0
    /\ ~statusLog[Len(statusLog)].ok /\ statusLog[Len(statusLog)].polling
    /\ stateSensors \in SensorPayloads
    /\ pending["sensors"] > 0
    /\ pending["tasks"] = 0 /\ stateTasks = <<>>

\* C23: for each polled category, a step in which a fetch fails leaves
\* State.isConnected false and a step in which a fetch succeeds leaves it true.
C23_FetchSetsConnected ==
    [][/\ StatusFailure => ~isConnected'
       /\ (\E c \in Cats \ {"robot"} : FetchIgnored(c)) => ~isConnected'
       /\ (\E d \in RobotPayloads : StatusSuccess(d)) => isConnected'
       /\ (\E d \in SensorPayloads : SensorSuccess(d)) => isConnected'
       /\ (\E d \in StatisticsPayloads : StatisticsSuccess(d)) => isConnected'
       /\ (\E d \in TaskPayloads : TasksSuccess(d)) => isConnected']_vars

(***************************************************************************)
(* The mock data layer's state object (backend/data/mockData.js, held in   *)
(* robotController.js). Areas are counted in hundredths of a mu, progress  *)
(* in tenths of a percent, so that toFixed(1) is a rounding of integers;   *)
(* the battery in hundredths of a percent, the speed in tenths of a m/s,   *)
(* the coordinates in thousandths of a degree.                             *)
(***************************************************************************)
InitMock ==
    /\ mockState = [battery |-> 8500, speed |-> 12, temperature |-> 28,
                    lat |-> 40200, lon |-> 116400,
                    soilHumidity |-> 65, soilTemp |-> 22, light |-> 8000, airHumidity |-> 55,
                    completedArea |-> 1250, totalArea |-> 3820]
    /\ lastStats = [fn |-> "none"]
    /\ dataLayer = "dataSource"
    /\ apiLog = <<>>

\* Number(x.toFixed(1)) of the quotient n/d for d > 0: the nearest tenth
Round(n, d) == (2 * n + d) \div (2 * d)

\* Number((0 / 0 * 100).toFixed(1)) is NaN
NaN == -1

\* Number((completedArea / totalArea * 100).toFixed(1)) as getStatistics
\* computes it: no test of totalArea
progressOnRead(completedArea, totalArea) ==
    IF totalArea = 0 THEN NaN ELSE Round(completedArea * 1000, totalArea)

\* the same as updateStatistics computes it: totalArea > 0 ? ... : 0
progressOnUpdate(completedArea, totalArea) ==
    IF totalArea > 0 THEN Round(completedArea * 1000, totalArea) ELSE 0

\* random(0, 0.1): two samples of the interval, in hundredths
AreaSteps == {0, 4}

StatisticsInputs == {[completedArea |-> 5000], [totalArea |-> 2000], [totalArea |-> 0],
                     [completedArea |-> 500, totalArea |-> 1000]}

\* Math.max(0, x)
NonNegative(x) == IF x > 0 THEN x ELSE 0

updateStatistics(st, data) ==
    [st EXCEPT !.completedArea = IF "completedArea" \in DOMAIN data
                                 THEN NonNegative(data.completedArea) ELSE @,
               !.totalArea = IF "totalArea" \in DOMAIN data
                             THEN NonNegative(data.totalArea) ELSE @]

\* getStatistics(): the simulated growth, clamped to the total area
getStatistics(st, step) ==
    [st EXCEPT !.completedArea = clamp(@ + step, 0, st.totalArea)]

UpdateStatistics(data) ==
    /\ mockState' = updateStatistics(mockState, data)
    /\ lastStats' = [fn |-> "updateStatistics",
                     completedArea |-> Round(mockState'.completedArea, 10),
                     totalArea |-> mockState'.totalArea,
                     progress |-> progressOnUpdate(mockState'.completedArea,
                                                   mockState'.totalArea)]
    /\ UNCHANGED <<dataLayer, apiLog>>
    /\ UNCHANGED nonMock

GetStatistics(step) ==
    /\ mockState' = getStatistics(mockState, step)
    /\ lastStats' = [fn |-> "getStatistics",
                     completedArea |-> Round(mockState'.completedArea, 10),
                     totalArea |-> mockState'.totalArea,
                     progress |-> progressOnRead(mockState'.completedArea,
                                                 mockState'.totalArea)]
    /\ UNCHANGED <<dataLayer, apiLog>>
    /\ UNCHANGED nonMock

NextMock ==
    \/ \E d \in StatisticsInputs : UpdateStatistics(d)
    \/ \E step \in AreaSteps : GetStatistics(step)

\* C12: the stored completedArea is never greater than the stored totalArea.
C12_CompletedWithinTotal == mockState.completedArea <= mockState.totalArea

\* progress = completedArea / totalArea x 100, to one decimal, 0 for no area
ExpectedProgress(completedArea, totalArea) ==
    IF totalArea = 0 THEN 0 ELSE Round(completedArea * 1000, totalArea)

\* C13: a statistics read returns the progress recomputed from the areas held
\* at the time of the read, and 0 when totalArea is 0: getStatistics of the
\* mock data layer, and getStatistics of the data source after a statistics
\* update that carried only the areas.
C13_ProgressRecomputed ==
    /\ lastStats.fn = "getStatistics"
       => lastStats.progress = ExpectedProgress(mockState.completedArea, mockState.totalArea)
    /\ (lastRead.fn = "statistics" /\ ~lastRead.threw
        /\ {"completedArea", "totalArea"} \subseteq DOMAIN lastRead.result)
       => /\ "progress" \in DOMAIN lastRead.result
          /\ lastRead.result.progress
               = ExpectedProgress(lastRead.result.completedArea * 100,
                                  lastRead.result.totalArea * 100)

(***************************************************************************)
(* The REST interface over the data module the controller requires         *)
(* (exports.* of backend/controllers/robotController.js, the error         *)
(* middleware of the server). As shipped the controller requires           *)
(* dataSource as `data` and the require of mockData is commented out, so   *)
(* the name mockData is unbound; the documented switch requires mockData   *)
(* and uses it as `data`.                                                  *)
(***************************************************************************)
nonApi == <<alertVars, pollVars, chartVars, dsVars, reqVars, flightVars, videoVars>>

\* The number of requests answered so far
Served(log) == IF Len(log) = 0 THEN 0 ELSE log[Len(log)].n

\* The last two exchanges, numbered in the order the server answered them
Logged(log, x) ==
    LET y == Spread(x, [n |-> Served(log) + 1])
    IN  IF Len(log) < 2 THEN Append(log, y) ELSE <<log[2], y>>

\* The controller file is switched to the mock data layer before the server starts
UseMockData ==
    /\ dataLayer = "dataSource" /\ apiLog = <<>>
    /\ dataLayer' = "mockData"
    /\ UNCHANGED <<mockState, lastStats, apiLog, taskVars, nonApi>>

\* A reference to the unbound name mockData throws a ReferenceError, which
\* asyncHandler passes to the error middleware: status 500
Failed(method, route, body) ==
    [method |-> method, route |-> route, body |-> body, status |-> 500, success |-> FALSE]

\* sendError(res, message, 400)
Invalid(method, route, body) ==
    [method |-> method, route |-> route, body |-> body, status |-> 400, success |-> FALSE]

\* sendSuccess(res, data)
Succeeded(method, route, body, data) ==
    [method |-> method, route |-> route, body |-> body, status |-> 200, success |-> TRUE,
     data |-> data]

TaskBodies == {<<>>, [name |-> "X"], [name |-> "Y", status |-> "active", progress |-> 50]}

\* POST /api/tasks: exports.createTask
PostTask(body) ==
    /\ Served(apiLog) < MaxExchanges
    /\ Len(tasks) < MaxTasks
    /\ newId(tasks) <= MaxTaskId
    /\ IF "name" \notin DOMAIN body
       THEN /\ apiLog' = Logged(apiLog, Invalid("POST", "/tasks", body))
            /\ tasks' = tasks
       ELSE IF dataLayer # "mockData"
       THEN /\ apiLog' = Logged(apiLog, Failed("POST", "/tasks", body))
            /\ tasks' = tasks
       ELSE /\ tasks' = createTask(tasks, body)
            /\ apiLog' = Logged(apiLog, Succeeded("POST", "/tasks", body,
                                                  tasks'[Len(tasks')]))
    /\ UNCHANGED <<retiredIds, mockState, lastStats, dataLayer, nonApi>>

\* GET /api/tasks: exports.getTasks
GetTasks ==
    /\ Served(apiLog) < MaxExchanges
    /\ apiLog' = Logged(apiLog, IF dataLayer # "mockData"
                                THEN Failed("GET", "/tasks", <<>>)
                                ELSE Succeeded("GET", "/tasks", <<>>, tasks))
    /\ UNCHANGED <<taskVars, mockState, lastStats, dataLayer, nonApi>>

\* sendError(res, message, 404)
NotFound(method, route, body) ==
    [method |-> method, route |-> route, body |-> body, status |-> 404, success |-> FALSE]

\* res.json({ success: true, message, timestamp }) of deleteTask
Deleted(method, route, body) ==
    [method |-> method, route |-> route, body |-> body, status |-> 200, success |-> TRUE]

\* The :id segment of a path is a string, written here as its characters
Digits == <<"0", "1", "2", "3", "4", "5", "6", "7", "8", "9">>
IsDigit(ch) == \E i \in 1..Len(Digits) : Digits[i] = ch
DigitValue(ch) == (CHOOSE i \in 1..Len(Digits) : Digits[i] = ch) - 1

\* A string that is a decimal number: digits and nothing else
IsNumeric(str) == Len(str) > 0 /\ \A i \in 1..Len(str) : IsDigit(str[i])

RECURSIVE LeadingDigits(_)
LeadingDigits(str) ==
    IF Len(str) = 0 \/ ~IsDigit(str[1]) THEN <<>>
    ELSE <<str[1]>> \o LeadingDigits(Tail(str))

RECURSIVE DecimalValue(_)
DecimalValue(ds) ==
    IF Len(ds) = 0 THEN 0
    ELSE 10 * DecimalValue(SubSeq(ds, 1, Len(ds) - 1)) + DigitValue(ds[Len(ds)])

\* parseInt(string): the value of the longest prefix of digits, NaN when the
\* string does not start with a digit
parseInt(str) ==
    IF Len(LeadingDigits(str)) = 0 THEN NaN ELSE DecimalValue(LeadingDigits(str))

IdStrings == {<<"2">>, <<"9">>, <<"a", "b", "c">>, <<"2", "a">>}

UpdateBodies == {<<>>, [name |-> "Z", progress |-> 150]}

\* PUT /api/tasks/:id: exports.updateTask
PutTask(id, body) ==
    /\ Served(apiLog) < MaxExchanges
    /\ LET taskId == parseInt(id)
           route == "/tasks/:id"
           about == [id |-> id]
       IN  IF taskId = NaN
           THEN /\ apiLog' = Logged(apiLog, Spread(Invalid("PUT", route, body), about))
                /\ tasks' = tasks
           ELSE IF DOMAIN body = {}
           THEN /\ apiLog' = Logged(apiLog, Spread(Invalid("PUT", route, body), about))
                /\ tasks' = tasks
           ELSE IF dataLayer # "mockData"
           THEN /\ apiLog' = Logged(apiLog, Spread(Failed("PUT", route, body), about))
                /\ tasks' = tasks
           ELSE IF taskId \notin TaskIds(tasks)
           THEN /\ apiLog' = Logged(apiLog, Spread(NotFound("PUT", route, body), about))
                /\ tasks' = tasks
           ELSE /\ tasks' = updateTask(tasks, taskId, body)
                /\ apiLog' = Logged(apiLog,
                                    Spread(Succeeded("PUT", route, body,
                                                     tasks'[CHOOSE i \in 1..Len(tasks) :
                                                                tasks[i].id = taskId]),
                                           about))
    /\ UNCHANGED <<retiredIds, mockState, lastStats, dataLayer, nonApi>>

\* DELETE /api/tasks/:id: exports.deleteTask
DeleteTaskById(id) ==
    /\ Served(apiLog) < MaxExchanges
    /\ LET taskId == parseInt(id)
           route == "/tasks/:id"
           about == [id |-> id]
       IN  IF taskId = NaN
           THEN /\ apiLog' = Logged(apiLog, Spread(Invalid("DELETE", route, <<>>), about))
                /\ UNCHANGED taskVars
           ELSE IF dataLayer # "mockData"
           THEN /\ apiLog' = Logged(apiLog, Spread(Failed("DELETE", route, <<>>), about))
                /\ UNCHANGED taskVars
           ELSE IF taskId \notin TaskIds(tasks)
           THEN /\ apiLog' = Logged(apiLog, Spread(NotFound("DELETE", route, <<>>), about))
                /\ UNCHANGED taskVars
           ELSE /\ tasks' = deleteTask(tasks, taskId)
                /\ retiredIds' = retiredIds \cup {taskId}
                /\ apiLog' = Logged(apiLog, Spread(Deleted("DELETE", route, <<>>), about))
    /\ UNCHANGED <<mockState, lastStats, dataLayer, nonApi>>

\* updateSensorData(data): the fields supplied, the percentages and the light clamped
updateSensorData(st, data) ==
    [st EXCEPT !.soilHumidity = IF "soilHumidity" \in DOMAIN data
                                THEN clamp(data.soilHumidity, 0, 100) ELSE @,
               !.soilTemp = IF "soilTemp" \in DOMAIN data THEN data.soilTemp ELSE @,
               !.light = IF "light" \in DOMAIN data THEN clamp(data.light, 0, 100000) ELSE @,
               !.airHumidity = IF "airHumidity" \in DOMAIN data
                               THEN clamp(data.airHumidity, 0, 100) ELSE @]

SensorFields(st) == Pick(st, {"soilHumidity", "soilTemp", "light", "airHumidity"})

\* getSensorData() of the mock layer draws every field anew:
\* Math.floor(random(60, 70)), (20, 25), (7000, 9000), (50, 60)
SensorDraws == {[soilHumidity |-> 60, soilTemp |-> 20, light |-> 7000, airHumidity |-> 50],
                [soilHumidity |-> 69, soilTemp |-> 24, light |-> 8999, airHumidity |-> 59]}

getSensorData(st, draw) == Spread(st, draw)

SensorBodies == {<<>>, [soilHumidity |-> 30], [soilHumidity |-> 80, light |-> 200000]}

\* POST /api/sensors: exports.updateSensors
PostSensors(body) ==
    /\ Served(apiLog) < MaxExchanges
    /\ IF DOMAIN body = {}
       THEN /\ apiLog' = Logged(apiLog, Invalid("POST", "/sensors", body))
            /\ mockState' = mockState
       ELSE IF dataLayer # "mockData"
       THEN /\ apiLog' = Logged(apiLog, Failed("POST", "/sensors", body))
            /\ mockState' = mockState
       ELSE /\ mockState' = updateSensorData(mockState, body)
            /\ apiLog' = Logged(apiLog, Succeeded("POST", "/sensors", body,
                                                  SensorFields(mockState')))
    /\ UNCHANGED <<taskVars, lastStats, dataLayer, nonApi>>

\* GET /api/sensors: exports.getSensors, data.getSensorData() of the layer in
\* use (the data source is left on a stream transport here)
GetSensors(draw) ==
    /\ Served(apiLog) < MaxExchanges
    /\ cfgType # "http"
    /\ mockState' = IF dataLayer = "mockData" THEN getSensorData(mockState, draw)
                    ELSE mockState
    /\ apiLog' = Logged(apiLog, Succeeded("GET", "/sensors", <<>>,
                                          IF dataLayer = "mockData"
                                          THEN SensorFields(mockState')
                                          ELSE ReadResult(cache, "sensors")))
    /\ UNCHANGED <<taskVars, lastStats, dataLayer, nonApi>>

\* The object both robot-status functions of the mock layer return
RobotFields(st) ==
    [battery |-> st.battery \div 100, speed |-> st.speed, temperature |-> st.temperature,
     coordinates |-> [lat |-> st.lat, lon |-> st.lon]]

\* updateRobotStatus(data): the fields supplied, the battery clamped
updateRobotStatus(st, data) ==
    [st EXCEPT !.battery = IF "battery" \in DOMAIN data
                           THEN clamp(data.battery, 0, 100) * 100 ELSE @,
               !.temperature = IF "temperature" \in DOMAIN data THEN data.temperature ELSE @]

\* getRobotStatus() of the mock layer: the battery drains by random(0, 0.05)
\* down to 20, speed, temperature and position are drawn anew
RobotDraws == {[drain |-> 0, speed |-> 0, temperature |-> 25, lat |-> 40195, lon |-> 116395],
               [drain |-> 4, speed |-> 19, temperature |-> 30, lat |-> 40205, lon |-> 116405]}

getRobotStatus(st, draw) ==
    [st EXCEPT !.battery = IF @ - draw.drain > 2000 THEN @ - draw.drain ELSE 2000,
               !.speed = draw.speed, !.temperature = draw.temperature,
               !.lat = draw.lat, !.lon = draw.lon]

StatusBodies == {<<>>, [battery |-> 50], [battery |-> 10, temperature |-> 40]}

\* POST /api/robot/status: exports.updateStatus
PostStatus(body) ==
    /\ Served(apiLog) < MaxExchanges
    /\ IF DOMAIN body = {}
       THEN /\ apiLog' = Logged(apiLog, Invalid("POST", "/robot/status", body))
            /\ mockState' = mockState
       ELSE IF dataLayer # "mockData"
       THEN /\ apiLog' = Logged(apiLog, Succeeded("POST", "/robot/status", body, body))
            /\ mockState' = mockState
       ELSE /\ mockState' = updateRobotStatus(mockState, body)
            /\ apiLog' = Logged(apiLog, Succeeded("POST", "/robot/status", body,
                                                  RobotFields(mockState')))
    /\ UNCHANGED <<taskVars, lastStats, dataLayer, nonApi>>

\* GET /api/robot/status: exports.getStatus
GetStatus(draw) ==
    /\ Served(apiLog) < MaxExchanges
    /\ cfgType # "http"
    /\ mockState' = IF dataLayer = "mockData" THEN getRobotStatus(mockState, draw)
                    ELSE mockState
    /\ apiLog' = Logged(apiLog, Succeeded("GET", "/robot/status", <<>>,
                                          IF dataLayer = "mockData"
                                          THEN RobotFields(mockState')
                                          ELSE ReadResult(cache, "robot")))
    /\ UNCHANGED <<taskVars, lastStats, dataLayer, nonApi>>

NextApi ==
    \/ UseMockData
    \/ \E b \in StatusBodies : PostStatus(b)
    \/ \E d \in RobotDraws : GetStatus(d)
    \/ \E b \in TaskBodies : PostTask(b)
    \/ GetTasks
    \/ \E id \in IdStrings : \E b \in UpdateBodies : PutTask(id, b)
    \/ \E id \in IdStrings : DeleteTaskById(id)
    \/ \E b \in SensorBodies : PostSensors(b)
    \/ \E d \in SensorDraws : GetSensors(d)

\* C19: POST /api/tasks with only a name succeeds and returns a task with a
\* numeric id, status "pending" and progress 0, and a GET /api/tasks that
\* follows it succeeds with a list that contains that task.
C19_CreateThenList ==
    \A i \in 1..Len(apiLog) :
        (apiLog[i].method = "POST" /\ apiLog[i].route = "/tasks"
         /\ DOMAIN apiLog[i].body = {"name"})
        => /\ apiLog[i].status = 200
           /\ apiLog[i].data.id \in Nat
           /\ apiLog[i].data.status = "pending"
           /\ apiLog[i].data.progress = 0
           /\ (i < Len(apiLog) /\ apiLog[i + 1].method = "GET"
               /\ apiLog[i + 1].route = "/tasks")
              => /\ apiLog[i + 1].status = 200
                 /\ \E j \in 1..Len(apiLog[i + 1].data) :
                        apiLog[i + 1].data[j] = apiLog[i].data

\* C20: after a successful POST /api/sensors that sets soilHumidity to an
\* in-range value, the next GET /api/sensors returns that value.
C20_SensorUpdateObservable ==
    (/\ Len(apiLog) = 2
     /\ apiLog[1].method = "POST" /\ apiLog[1].route = "/sensors" /\ apiLog[1].status = 200
     /\ "soilHumidity" \in DOMAIN apiLog[1].body
     /\ apiLog[1].body.soilHumidity \in 0..100
     /\ apiLog[2].method = "GET" /\ apiLog[2].route = "/sensors")
    => /\ apiLog[2].status = 200
       /\ apiLog[2].data.soilHumidity = apiLog[1].body.soilHumidity

\* The request answered by a step of the REST interface
Answered == apiLog'[Len(apiLog')]

\* createTask without name, updateTask or deleteTask with an id that is no
\* number, an update endpoint with an empty body
FailsValidation(x) ==
    IF x.route = "/tasks/:id"
    THEN ~IsNumeric(x.id) \/ (x.method = "PUT" /\ DOMAIN x.body = {})
    ELSE /\ x.method = "POST"
         /\ IF x.route = "/tasks" THEN "name" \notin DOMAIN x.body ELSE DOMAIN x.body = {}

\* C27: a request that fails input validation is answered with status 400 and
\* success = false, and the stored tasks and the stored state are unchanged.
C27_InvalidInputRejected ==
    [][(Served(apiLog') > Served(apiLog) /\ FailsValidation(Answered))
       => /\ Answered.status = 400
          /\ ~Answered.success
          /\ tasks' = tasks
          /\ mockState' = mockState]_vars

\* C28: updateTask or deleteTask with a numeric id that matches no task of the
\* list is answered with status 404 and success = false, and the task list is
\* unchanged.
C28_UnknownTaskNotFound ==
    [][(/\ Served(apiLog') > Served(apiLog)
        /\ Answered.route = "/tasks/:id"
        /\ IsNumeric(Answered.id)
        /\ Answered.method = "PUT" => DOMAIN Answered.body # {}
        /\ parseInt(Answered.id) \notin TaskIds(tasks))
       => /\ Answered.status = 404
          /\ ~Answered.success
          /\ tasks' = tasks]_vars

\* C21: POST /api/robot/status with a partial body answers with the complete
\* status object {battery, speed, temperature, coordinates}, and a GET
\* /api/robot/status that follows returns the values written.
C21_StatusWriteObservable ==
    \A i \in 1..Len(apiLog) :
        (apiLog[i].method = "POST" /\ apiLog[i].route = "/robot/status"
         /\ DOMAIN apiLog[i].body # {})
        => /\ apiLog[i].status = 200
           /\ DOMAIN apiLog[i].data = {"battery", "speed", "temperature", "coordinates"}
           /\ \A f \in DOMAIN apiLog[i].body : apiLog[i].data[f] = apiLog[i].body[f]
           /\ (i < Len(apiLog) /\ apiLog[i + 1].method = "GET"
               /\ apiLog[i + 1].route = "/robot/status")
              => /\ apiLog[i + 1].status = 200
                 /\ \A f \in DOMAIN apiLog[i].body :
                        apiLog[i + 1].data[f] = apiLog[i].body[f]

(***************************************************************************)
(* Outbound requests: API.request of the browser (frontend/js/api.js) and  *)
(* httpRequest of the data source. Both arm setTimeout(abort, timeout),    *)
(* await fetch(), clear the timer, test response.ok and await              *)
(* response.json(); the catch block clears the timer and rethrows.         *)
(***************************************************************************)
Callers == {"API.request", "httpRequest"}

InitRequests ==
    requests = [c \in Callers |-> [phase |-> "idle", timer |-> FALSE, calls |-> 0]]

Pending(r) == r.phase \in {"fetch", "body"}
Settled(r) == r.phase \in {"resolved", "rejected"}

\* The call: setTimeout(() => controller.abort(), timeout); fetch(url, config)
Request(c) ==
    /\ ~Pending(requests[c])
    /\ requests[c].calls < MaxCalls
    /\ requests' = [requests EXCEPT ![c] = [phase |-> "fetch", timer |-> TRUE,
                                            calls |-> @.calls + 1]]
    /\ UNCHANGED nonReq

\* fetch() resolves when the response headers have arrived: clearTimeout;
\* a status outside 2xx throws into the catch block
HeadersArrive(c, ok) ==
    /\ requests[c].phase = "fetch"
    /\ requests' = [requests EXCEPT ![c] = [@ EXCEPT !.phase = IF ok THEN "body" ELSE "rejected",
                                                     !.timer = FALSE]]
    /\ UNCHANGED nonReq

\* fetch() rejects (connection refused, reset): the catch block clears the timer
NetworkError(c) ==
    /\ requests[c].phase = "fetch"
    /\ requests' = [requests EXCEPT ![c] = [@ EXCEPT !.phase = "rejected", !.timer = FALSE]]
    /\ UNCHANGED nonReq

\* The armed timer fires: controller.abort() rejects whatever awaits the
\* signal with an AbortError, the catch block rethrows
TimeoutFires(c) ==
    /\ requests[c].timer
    /\ Pending(requests[c])
    /\ requests' = [requests EXCEPT ![c] = [@ EXCEPT !.phase = "rejected", !.timer = FALSE]]
    /\ UNCHANGED nonReq

\* response.json() settles once the whole body has arrived: the parsed value,
\* or a SyntaxError that goes through the catch block
BodyArrives(c, valid) ==
    /\ requests[c].phase = "body"
    /\ requests' = [requests EXCEPT ![c] = [@ EXCEPT !.phase = IF valid THEN "resolved"
                                                              ELSE "rejected",
                                                     !.timer = FALSE]]
    /\ UNCHANGED nonReq

NextRequest ==
    \/ \E c \in Callers : Request(c)
    \/ \E c \in Callers : \E ok \in BOOLEAN : HeadersArrive(c, ok)
    \/ \E c \in Callers : NetworkError(c)
    \/ \E c \in Callers : TimeoutFires(c)
    \/ \E c \in Callers : \E valid \in BOOLEAN : BodyArrives(c, valid)

\* C26: every outbound request terminates: a call that is pending is
\* eventually resolved or rejected, whatever the network does, and once it
\* has settled its timeout timer is not armed.
C26_RequestsTerminate ==
    \A c \in Callers :
        /\ [](Settled(requests[c]) => ~requests[c].timer)
        /\ Pending(requests[c]) ~> Settled(requests[c])

(***************************************************************************)
(* The status poll, one fetch at a time (refresh of                        *)
(* DataService.startRobotStatusRefresh): every run of refresh() issues a   *)
(* request of its own and awaits it; the runs do not wait for each other.  *)
(***************************************************************************)
InitStatusPoll ==
    statusPoll = [sequence |-> 0, inflight |-> {}, arrived |-> 0, newest |-> 0]

\* What the backend answers to the k-th request: the battery drains between
\* the requests
DataOf(k) ==
    [battery |-> IF 35 - 10 * k > 0 THEN 35 - 10 * k ELSE 0, speed |-> 1, temperature |-> 25,
     coordinates |-> [lat |-> 40, lon |-> 116]]

\* refresh() runs, at start-up or on a tick of the interval: API.getRobotStatus()
StatusTick ==
    /\ statusPoll.sequence < MaxStatusFetches
    /\ statusPoll' = [statusPoll EXCEPT !.sequence = @ + 1,
                                        !.inflight = @ \cup {statusPoll.sequence + 1}]
    /\ pending' = [pending EXCEPT !["robot"] = @ + 1]
    /\ issued' = issued + 1
    /\ UNCHANGED <<isConnected, stateRobot, stateSensors, stateStatistics, stateTasks,
                   timers, liveTimers, nextTimerId, logList, statusLog, chartVars>>
    /\ UNCHANGED <<alertVars, dsVars, taskVars, mockVars, reqVars, videoVars>>

\* The sensors poll has delivered a reading: State.sensors = data
SensorReading(data) ==
    /\ stateSensors # data
    /\ stateSensors' = data
    /\ SetAlertState(check(AlertState, Merged(stateRobot, data), now, alertContainer))
    /\ UNCHANGED <<isConnected, stateRobot, stateStatistics, stateTasks, timers, liveTimers,
                   nextTimerId, pending, issued, logList, statusLog, chartVars>>
    /\ UNCHANGED <<now, alertContainer, evalLog, dsVars, taskVars, mockVars, reqVars,
                   flightVars, videoVars>>

\* A response is applied only if no response to a later request has been
Applies_NewestOnly(k) == k > statusPoll.newest

\* The await of the k-th run resumes with result.success: onSuccess(result.data)
\* runs whatever has been applied before
Applies(k) == TRUE

\* The response to the k-th request arrives
StatusResponse(k) ==
    /\ k \in statusPoll.inflight
    /\ pending' = [pending EXCEPT !["robot"] = @ - 1]
    /\ statusPoll' = [statusPoll EXCEPT !.inflight = @ \ {k},
                                        !.arrived = k,
                                        !.newest = IF Applies(k) /\ k > @ THEN k ELSE @]
    /\ LET data == DataOf(k)
       IN  IF Applies(k)
           THEN /\ stateRobot' = data
                /\ isConnected' = TRUE
                /\ logList' = IF ~isConnected THEN LogAdd(logList, "connected") ELSE logList
                /\ LET st0 == IF ~isConnected
                              THEN checkConnection(AlertState, TRUE, now, alertContainer)
                              ELSE AlertState
                       st  == check(st0, Merged(data, stateSensors), now, alertContainer)
                   IN  SetAlertState(st)
                /\ chartHistory' = IF stateSensors.soilHumidity # 0
                                   THEN ChartUpdate(chartHistory, data, stateSensors, now)
                                   ELSE chartHistory
                /\ chartFeed' = IF stateSensors.soilHumidity # 0
                                THEN Append(chartFeed, [robot |-> data, sensors |-> stateSensors,
                                                        time |-> now])
                                ELSE chartFeed
           ELSE UNCHANGED <<stateRobot, isConnected, logList, activeAlerts, alertHistory,
                            notified, lastEval, chartVars>>
    /\ UNCHANGED <<stateSensors, stateStatistics, stateTasks, timers, liveTimers,
                   nextTimerId, issued, statusLog>>
    /\ UNCHANGED <<now, alertContainer, evalLog, dsVars, taskVars, mockVars, reqVars, videoVars>>

\* The k-th request rejects: onFailure()
StatusRejects(k) ==
    /\ k \in statusPoll.inflight
    /\ pending' = [pending EXCEPT !["robot"] = @ - 1]
    /\ statusPoll' = [statusPoll EXCEPT !.inflight = @ \ {k}]
    /\ isConnected' = FALSE
    /\ logList' = IF isConnected THEN LogAdd(logList, "disconnected") ELSE logList
    /\ IF isConnected
       THEN SetAlertState(checkConnection(AlertState, FALSE, now, alertContainer))
       ELSE UNCHANGED <<activeAlerts, alertHistory, notified, lastEval>>
    /\ UNCHANGED <<stateRobot, stateSensors, stateStatistics, stateTasks, timers,
                   liveTimers, nextTimerId, issued, statusLog, chartVars>>
    /\ UNCHANGED <<now, alertContainer, evalLog, dsVars, taskVars, mockVars, reqVars, videoVars>>

NextOverlap ==
    \/ StatusTick
    \/ \E d \in SensorPayloads : SensorReading(d)
    \/ \E k \in 1..MaxStatusFetches : StatusResponse(k)
    \/ \E k \in 1..MaxStatusFetches : StatusRejects(k)

\* C29: the response that arrived last is what the page holds, whichever
\* request it answers: State.robot and the low-battery evaluation are those of
\* that response and so is the newest sample of a chart that has samples, also
\* when the response to a later request has been applied before it.
C29_LastArrivalWins ==
    statusPoll.arrived # 0
    => /\ stateRobot = DataOf(statusPoll.arrived)
       /\ ("lowBattery" \in DOMAIN activeAlerts) = (DataOf(statusPoll.arrived).battery < 20)
       /\ Len(chartHistory.battery) > 0 =>
              chartHistory.battery[Len(chartHistory.battery)] =
                  DataOf(statusPoll.arrived).battery

\* The page holds the answer to an earlier request than one it has already shown
C29_Witness ==
    /\ statusPoll.arrived # 0
    /\ statusPoll.arrived < statusPoll.newest
    /\ stateRobot = DataOf(statusPoll.arrived)
    /\ stateRobot.battery > DataOf(statusPoll.newest).battery
    /\ "lowBattery" \notin DOMAIN activeAlerts
    /\ Len(chartFeed) >= 2
    /\ chartFeed[Len(chartFeed)].robot = DataOf(statusPoll.arrived)
    /\ chartFeed[Len(chartFeed) - 1].robot = DataOf(statusPoll.newest)

(***************************************************************************)
(* VideoService (video.js): the refresh interval of the picture            *)
(***************************************************************************)
\* The object literal before init(): config.type 'local', state.refreshTimer
\* null (0 here), no interval alive, no setTimeout(start) pending
InitVideo ==
    video = [ready |-> FALSE, type |-> "local", isPlaying |-> FALSE, refreshTimer |-> 0,
             retryCount |-> 0, intervals |-> {}, nextInterval |-> 1, startTimeouts |-> 0,
             stopped |-> FALSE, restarts |-> 0, sinceLoad |-> 0]

nonVideo == <<alertVars, pollVars, chartVars, dsVars, taskVars, mockVars, reqVars, flightVars>>

\* The source types start() dispatches on: the camera, the picture fetched
\* again and again, the drawn picture
SourceTypes == {"local", "image", "demo"}

\* state.maxRetries
maxRetries == 5

\* stop(): clearInterval(state.refreshTimer) if it is set, and only that one
stop(v) ==
    [v EXCEPT !.intervals = IF v.refreshTimer # 0 THEN @ \ {v.refreshTimer} ELSE @,
              !.refreshTimer = 0,
              !.isPlaying = FALSE,
              !.stopped = TRUE]

\* handleError(): retryCount++, then a start() two seconds later while
\* retryCount < maxRetries, else stop()
handleError_Inclusive(v) ==
    IF v.retryCount + 1 <= maxRetries
    THEN [v EXCEPT !.retryCount = @ + 1, !.startTimeouts = @ + 1,
                   !.restarts = @ + 1, !.sinceLoad = @ + 1]
    ELSE stop([v EXCEPT !.retryCount = @ + 1])

handleError(v) ==
    IF v.retryCount + 1 < maxRetries
    THEN [v EXCEPT !.retryCount = @ + 1, !.startTimeouts = @ + 1,
                   !.restarts = @ + 1, !.sinceLoad = @ + 1]
    ELSE stop([v EXCEPT !.retryCount = @ + 1])

\* startDemo() and startImageRefresh(): state.refreshTimer = setInterval(...),
\* whatever state.refreshTimer held
startInterval(v) ==
    [v EXCEPT !.refreshTimer = v.nextInterval,
              !.intervals = @ \cup {v.nextInterval},
              !.nextInterval = @ + 1,
              !.isPlaying = TRUE]

\* start(): the switch on config.type; startLocal() plays the camera if
\* getUserMedia grants it and calls handleError() if not
start(v, granted) ==
    IF v.type \in {"image", "demo"} THEN startInterval(v)
    ELSE IF granted THEN [v EXCEPT !.isPlaying = TRUE]
    ELSE handleError(v)

\* setTimeout(() => this.start(), ...) can still be registered, and
\* retryCount++ can still count
CanSchedule(v) ==
    /\ v.startTimeouts < MaxStartTimeouts
    /\ v.retryCount < MaxErrors
    /\ v.sinceLoad < MaxRestarts

\* start() can still obtain an interval
CanStart(v) == v.nextInterval <= MaxIntervals

\* init(), once at page load: bindEvents() and start()
VideoInit(granted) ==
    /\ ~video.ready
    /\ video' = start([video EXCEPT !.ready = TRUE, !.stopped = FALSE], granted)
    /\ UNCHANGED nonVideo

\* The play button: togglePlay()
VideoTogglePlay(granted) ==
    /\ video.ready
    /\ CanStart(video)
    /\ CanSchedule(video)
    /\ video' = IF video.isPlaying THEN stop(video)
                ELSE start([video EXCEPT !.stopped = FALSE], granted)
    /\ UNCHANGED nonVideo

\* The refresh button: refresh() stops, resets retryCount and starts half a
\* second later
VideoRefresh ==
    /\ video.ready
    /\ video.startTimeouts < MaxStartTimeouts
    /\ video' = [stop(video) EXCEPT !.retryCount = 0, !.startTimeouts = @ + 1,
                                    !.stopped = FALSE, !.restarts = 0]
    /\ UNCHANGED nonVideo

\* A timeout registered by refresh() or handleError() fires: start()
VideoStartTimeout(granted) ==
    /\ video.startTimeouts > 0
    /\ CanStart(video)
    /\ video.retryCount < MaxErrors
    /\ video.sinceLoad < MaxRestarts
    /\ video' = start([video EXCEPT !.startTimeouts = @ - 1], granted)
    /\ UNCHANGED nonVideo

\* The 'error' event of the picture whose address the refresh sets
VideoError ==
    /\ video.ready
    /\ video.type = "image"
    /\ CanSchedule(video)
    /\ video' = handleError(video)
    /\ UNCHANGED nonVideo

\* The 'load' event of the picture: handleLoad()
VideoLoad ==
    /\ video.ready
    /\ video.type \in {"image", "demo"}
    /\ video' = [video EXCEPT !.retryCount = 0, !.restarts = 0, !.sinceLoad = 0]
    /\ UNCHANGED nonVideo

\* setSource(type, url): stop(), config.type = type, start()
VideoSetSource(type, granted) ==
    /\ video.ready
    /\ CanStart(video)
    /\ CanSchedule(video)
    /\ video' = start([stop(video) EXCEPT !.type = type, !.stopped = FALSE], granted)
    /\ UNCHANGED nonVideo

\* destroy() at page teardown: stop()
VideoDestroy ==
    /\ video.ready
    /\ video.isPlaying
    /\ video' = stop(video)
    /\ UNCHANGED nonVideo

NextVideo ==
    \/ \E granted \in BOOLEAN : VideoInit(granted)
    \/ \E granted \in BOOLEAN : VideoTogglePlay(granted)
    \/ VideoRefresh
    \/ \E granted \in BOOLEAN : VideoStartTimeout(granted)
    \/ VideoError
    \/ VideoLoad
    \/ \E type \in SourceTypes, granted \in BOOLEAN : VideoSetSource(type, granted)
    \/ VideoDestroy

C31_StopStaysStopped ==
    video.stopped =>
        /\ ~video.isPlaying
        /\ video.refreshTimer = 0
        /\ video.intervals = {}

(***************************************************************************)
(* C36 as stated: handleError() schedules a restart only while the         *)
(* incremented retryCount is below maxRetries, so at most maxRetries - 1   *)
(* restarts are scheduled between two successful loads of the picture.     *)
(***************************************************************************)
C36_RestartsBetweenLoads == video.sinceLoad <= maxRetries - 1

(***************************************************************************)
(* C36, amended: at most maxRetries - 1 restarts are scheduled between two *)
(* resets of retryCount (handleLoad() or refresh()); below maxRetries      *)
(* every error has scheduled one; and the call that brings retryCount to   *)
(* maxRetries stops playback and schedules no restart.                     *)
(***************************************************************************)
C36_RestartsBetweenResets ==
    /\ [](video.restarts <= maxRetries - 1)
    /\ [](video.retryCount < maxRetries => video.restarts = video.retryCount)
    /\ [][(video.retryCount = maxRetries - 1 /\ video'.retryCount = maxRetries) =>
              /\ ~video'.isPlaying
              /\ video'.refreshTimer = 0
              /\ video'.startTimeouts <= video.startTimeouts
              /\ video'.restarts = video.restarts]_vars

\* The fifth error in a row after a refresh(): four restarts since the reset,
\* more since the picture last loaded, and playback stopped
C36_Witness ==
    /\ video.retryCount = maxRetries
    /\ video.restarts = maxRetries - 1
    /\ video.sinceLoad > video.restarts
    /\ ~video.isPlaying

(***************************************************************************)
(* C5: State.timers is empty exactly from a stopAll() to the next          *)
(* startAll(); the claim is that no interval timer is live then.           *)
(***************************************************************************)
C5_NoTimerLeak == (DOMAIN timers = {}) => liveTimers = {}

(***************************************************************************)
(* Specifications                                                          *)
(***************************************************************************)
Init == InitAlert /\ InitPoller /\ InitDataSource /\ InitTasks /\ InitMock /\ InitRequests
        /\ InitStatusPoll /\ InitVideo

SpecAlert == Init /\ [][NextAlert]_vars
SpecBattery == Init /\ [][NextBattery]_vars
SpecRules == Init /\ [][NextRules]_vars
SpecHistory == Init /\ [][NextHistory]_vars
SpecPoller == Init /\ [][NextPoller]_vars
SpecCache == Init /\ [][NextCache]_vars
SpecTransport == Init /\ [][NextTransport]_vars
SpecTasks == Init /\ [][NextTasks]_vars
SpecMock == Init /\ [][NextMock]_vars
SpecChart == Init /\ [][NextChart]_vars
SpecApi == Init /\ [][NextApi]_vars
SpecOverlap == Init /\ [][NextOverlap]_vars
SpecVideo == Init /\ [][NextVideo]_vars

\* The timers of the runtime fire; the network owes nothing
SpecRequest == Init /\ [][NextRequest]_vars /\ \A c \in Callers : WF_vars(TimeoutFires(c))

Next == NextAlert \/ NextBattery \/ NextRules \/ NextHistory \/ NextPoller \/ NextCache \/ NextTransport \/ NextTasks
        \/ NextMock \/ NextChart \/ NextApi \/ NextRequest \/ NextOverlap \/ NextVideo
Spec == Init /\ [][Next]_vars
====
